---- MODULE Spec2Model ----
(***************************************************************************)
(* A state-machine model of kodofs: the paginated list iterator            *)
(* (kodo/_list.go), the bucket filesystem adapter (kodofs.go and the       *)
(* kodo package's ReaddirContext) and the cached remote adapter (the       *)
(* cached package: stub files, the directory-cached marker, SyncOpen,     *)
(* Lstat, ReaddirAll and objFile.Close), the mount url (kodoutil.Parse,    *)
(* kodofs.Register and kodofs.Open), the region query of the kodo package *)
(* (getRegionByV2) and its form upload (doUploadAction, uploadProgress,    *)
(* readerWithProgress).                                                    *)
(*                                                                         *)
(* Strings are sequences of one-character strings, so that prefixes,       *)
(* suffixes, slicing and the byte order of keys are computed, not assumed. *)
(***************************************************************************)
EXTENDS Integers, Sequences, FiniteSets, TLC

VARIABLES
    bucket,     \* the remote store: the set of keys it holds
    it,         \* the ListIterator: opts.PageToken, page, nextIdx, isLastPage
    out,        \* the ListObjects returned by Next so far, in order
    last,       \* what the last call of Next returned: "none", "obj", "eof", "err"
    reqs,       \* the page requests the last call of Next made
    pageLens,   \* the sizes of the pages the iterator has loaded, in order
    nEof,       \* how many calls of Next on the iterator returned io.EOF
    failed,     \* whether a call of Next on the iterator returned an error
    puts,       \* the objects put into the bucket since the iterator was made
    local,      \* the local directory being synced: child name -> local entry
    marker,     \* whether the sentinel file .bktls.cache is in the directory
    pass,       \* per SyncOpen call: its listing and its background pass
    stubLog,    \* every writeStubFile call made: path, target, entry before and after
    faults,     \* how many local writes failed for external reasons so far
    fsys,       \* the cached filesystem: cacheFile flag and notify sink
    files,      \* per remote file name: the local path's content
    handles,    \* per remote file name: the objFile handle returned by SyncOpen
    notified,   \* the NotifyFile calls made so far
    opened,     \* the result of the last Bucket.Open, and the handle's use
    dirRead,    \* the last Bucket.ReaddirContext call and its result
    walked,     \* the last Bucket.WalkContext call: the visits made, its result
    statted,    \* the last remote.Lstat or remote.SyncLstat call and its result
    hosts,      \* kodofs.hosts: the registered host of each bucket name
    registered, \* the Register calls made so far, in order, and how each ended
    parsed,     \* the last kodoutil.Parse call and what it returned
    mounted,    \* the last kodofs.Open call and what it returned
    regionV2Cache, \* per region id: the cached region and whether it is fresh
    flights,    \* ucQueryV2Group: per region id, the call in flight, if any
    callers,    \* per caller of getRegionByV2: its key, its place, its result
    nQueries,   \* how many region queries have been started so far
    upload,     \* one doUploadAction call: its place, its host, the calls it made
    progress    \* one form upload: the body readers' counts, the callback's calls

listVars == <<it, out, last, reqs, pageLens, nEof, failed, puts>>
syncVars == <<local, marker, pass, stubLog, faults>>
fileVars == <<fsys, files, handles, notified>>
openVars == <<opened>>
dirVars == <<dirRead, walked>>
statVars == <<statted>>
mountVars == <<hosts, registered, parsed, mounted>>
regionVars == <<regionV2Cache, flights, callers, nQueries>>
uploadVars == <<upload, progress>>
vars == <<bucket, it, out, last, reqs, pageLens, nEof, failed, puts, local, marker, pass,
          stubLog, faults, fsys, files, handles, notified, opened, dirRead, walked,
          statted, hosts, registered, parsed, mounted, regionV2Cache, flights,
          callers, nQueries, upload, progress>>

----------------------------------------------------------------------------
(* Strings *)

\* The byte value of a character: keys are ordered by their UTF-8 bytes.
Ord(c) ==
    CASE c = "." -> 46
      [] c = "/" -> 47
      [] c = "a" -> 97
      [] c = "b" -> 98
      [] c = "d" -> 100
      [] c = "e" -> 101
      [] c = "h" -> 104
      [] c = "i" -> 105
      [] c = "l" -> 108
      [] c = "m" -> 109
      [] c = "n" -> 110
      [] c = "t" -> 116
      [] c = "w" -> 119
      [] c = "x" -> 120
      [] c = "y" -> 121
      [] c = "z" -> 122

Min(a, b) == IF a <= b THEN a ELSE b

\* Go's string comparison s < t: bytewise, a proper prefix is smaller.
RECURSIVE LexLess(_, _)
LexLess(s, t) ==
    IF t = <<>> THEN FALSE
    ELSE IF s = <<>> THEN TRUE
    ELSE IF Head(s) = Head(t) THEN LexLess(Tail(s), Tail(t))
    ELSE Ord(Head(s)) < Ord(Head(t))

LexLeq(s, t) == s = t \/ LexLess(s, t)

\* strings.HasPrefix, strings.HasSuffix, strings.TrimPrefix
HasPrefix(s, p) == Len(p) <= Len(s) /\ SubSeq(s, 1, Len(p)) = p
HasSuffix(s, x) == Len(x) <= Len(s) /\ SubSeq(s, Len(s) - Len(x) + 1, Len(s)) = x
TrimPrefix(s, p) == IF HasPrefix(s, p) THEN SubSeq(s, Len(p) + 1, Len(s)) ELSE s

\* The slice s[from:] of Go (from counts bytes from 0).
SliceFrom(s, from) == SubSeq(s, from + 1, Len(s))

\* strings.Index(s, c) for a one-byte c: the 0-based place of the first c, or -1.
IndexOf(s, c) ==
    IF \E i \in 1..Len(s) : s[i] = c
    THEN (CHOOSE i \in 1..Len(s) : s[i] = c /\ \A j \in 1..(i - 1) : s[j] # c) - 1
    ELSE -1

\* The elements of a set of strings in ascending byte order.
RECURSIVE SortKeys(_)
SortKeys(S) ==
    IF S = {} THEN <<>>
    ELSE LET m == CHOOSE x \in S : \A y \in S : LexLeq(x, y)
         IN <<m>> \o SortKeys(S \ {m})

----------------------------------------------------------------------------
(* Bounds and the inputs drawn *)

\* The most keys the bucket holds.
MaxObjects == 3
\* The most page requests one call of Next or of ReaddirContext makes.
MaxFetch == 3
\* The most SyncOpen calls made on the directory.
MaxPasses == 2
\* The most local writes that fail for a reason outside the program.
MaxFaults == 2
\* The most times one file is opened through the cached filesystem.
MaxOpens == 2
\* The most pages one iterator loads.
MaxPages == 3
\* The most calls of Next on one iterator that return io.EOF.
MaxEofs == 2
\* The most objects put into the bucket while an iterator is in use.
MaxPuts == 1

\* The keys a bucket of the list iterator's runs may hold.
ListKeys ==
    { <<"a">>, <<"a", ".">>, <<"a", "/">>, <<"a", "/", "x">>, <<"a", "/", "y">>, <<"b">> }
ListPrefixes == { <<>>, <<"a">>, <<"a", "/">> }
Delimiters == { <<>>, <<"/">> }

Buckets(keys) == { S \in SUBSET keys : Cardinality(S) <= MaxObjects }

\* Test data: the size and the put time (in 100 ns) the store keeps for a key.
ObjFsize(key) == 50 * Len(key)
ObjPutTime(key) == 7 + Len(key)

----------------------------------------------------------------------------
(* The remote store's listing API (BucketManager.ListFilesWithContext) *)

\* The entry a key shows as under (prefix, delimiter): itself, or, when what
\* follows the prefix holds the delimiter, the common prefix up to and
\* including the delimiter.
EntryOf(key, prefix, delimiter) ==
    LET rest == SliceFrom(key, Len(prefix))
        at == IF delimiter = <<>> THEN -1 ELSE IndexOf(rest, delimiter[1])
    IN IF at < 0
       THEN [Key |-> key, IsPrefix |-> FALSE]
       ELSE [Key |-> prefix \o SubSeq(rest, 1, at + 1), IsPrefix |-> TRUE]

\* The whole result for (prefix, delimiter), in ascending order of key: each
\* object once, each common prefix once.
ListEntries(bkt, prefix, delimiter) ==
    LET es == { EntryOf(k, prefix, delimiter) : k \in { k \in bkt : HasPrefix(k, prefix) } }
        keys == SortKeys({ e.Key : e \in es })
    IN [ i \in 1..Len(keys) |-> CHOOSE e \in es : e.Key = keys[i] ]

\* The entries that follow the marker (the empty marker: all of them).
EntriesAfter(bkt, prefix, delimiter, mark) ==
    SelectSeq(ListEntries(bkt, prefix, delimiter), LAMBDA e : LexLess(mark, e.Key))

ListItem(key) == [Key |-> key, Fsize |-> ObjFsize(key), PutTime |-> ObjPutTime(key)]

\* The sizes of the answers the store may give to a request of this limit:
\* at most the limit, at most what is left; an answer may be short, even empty.
MayReturn(bkt, prefix, delimiter, limit, mark) ==
    0..Min(limit, Len(EntriesAfter(bkt, prefix, delimiter, mark)))

\* One answer of the store holding the next n entries: the objects in Items,
\* the common prefixes in CommonPrefixes, the marker to continue from, and
\* whether more follows.
ListFilesWithContext(bkt, prefix, delimiter, limit, mark, n) ==
    LET rest == EntriesAfter(bkt, prefix, delimiter, mark)
        pg == SubSeq(rest, 1, n)
        items == SelectSeq(pg, LAMBDA e : ~e.IsPrefix)
        dirs == SelectSeq(pg, LAMBDA e : e.IsPrefix)
        hasNext == n < Len(rest)
    IN [ Items |-> [ i \in 1..Len(items) |-> ListItem(items[i].Key) ],
         CommonPrefixes |-> [ i \in 1..Len(dirs) |-> dirs[i].Key ],
         Marker |-> IF ~hasNext THEN <<>> ELSE IF n = 0 THEN mark ELSE pg[n].Key,
         hasNext |-> hasNext ]

----------------------------------------------------------------------------
(* kodo/_list.go: Bucket.List, Bucket.listPaged, ListIterator.Next *)

pageSize == 1000

\* fromPutTime: time.Unix(0, putTime*100), as nanoseconds.
fromPutTime(putTime) == putTime * 100

\* Bucket.List: a fresh iterator, no page loaded.
List(prefix, delimiter) ==
    [ Prefix |-> prefix, Delimiter |-> delimiter, PageSize |-> pageSize,
      PageToken |-> <<>>, hasPage |-> FALSE, Objects |-> <<>>,
      NextPageToken |-> <<>>, nextIdx |-> 0, isLastPage |-> FALSE ]

\* A List that takes the page token of the options for the first request.
ListOfKeepsToken(opts) ==
    [ List(opts.Prefix, opts.Delimiter) EXCEPT !.PageToken = opts.PageToken ]

\* Bucket.List(opts) for the options given: nil stands for the zero
\* options; the iterator takes the prefix and the delimiter of the options
\* and nothing else.
NilOptions == [ isNil |-> TRUE, Prefix |-> <<>>, Delimiter |-> <<>>, PageToken |-> <<>> ]
ListOf(opts) ==
    IF opts.isNil THEN List(<<>>, <<>>) ELSE List(opts.Prefix, opts.Delimiter)

\* listPaged that reports every page as the last one.
listPagedAlwaysLast(bkt, i, n) ==
    LET ret == ListFilesWithContext(bkt, i.Prefix, i.Delimiter, i.PageSize, i.PageToken, n)
    IN [ Objects |-> ret.Items, NextPageToken |-> ret.Marker, isLastPage |-> TRUE ]

\* Bucket.listPaged: the page of the store's answer: its Items and its
\* marker (the answer's CommonPrefixes are not read), and isLastPage.
listPaged(bkt, i, n) ==
    LET ret == ListFilesWithContext(bkt, i.Prefix, i.Delimiter, i.PageSize, i.PageToken, n)
    IN [ Objects |-> ret.Items, NextPageToken |-> ret.Marker, isLastPage |-> ~ret.hasNext ]

\* The ListObject Next makes of a page's item.
ToListObject(obj) ==
    LET isDir == HasSuffix(obj.Key, <<"/">>)
        key == IF isDir /\ obj.Key # <<"/">>
               THEN SubSeq(obj.Key, 1, Len(obj.Key) - 1) ELSE obj.Key
    IN [ Key |-> key, ModTime |-> fromPutTime(obj.PutTime), Size |-> obj.Fsize,
         IsDir |-> isDir ]

NoObject == [ Key |-> <<>>, ModTime |-> 0, Size |-> 0, IsDir |-> FALSE ]

\* A Next that takes an empty page for the last one.
LoadPageEmptyIsLast(i, p) ==
    [i EXCEPT !.hasPage = TRUE, !.Objects = p.Objects,
              !.NextPageToken = p.NextPageToken,
              !.nextIdx = 0, !.isLastPage = (p.isLastPage \/ p.Objects = <<>>)]

\* The iterator with the page p loaded (Next, after listPaged succeeded).
LoadPage(i, p) ==
    [i EXCEPT !.hasPage = TRUE, !.Objects = p.Objects,
              !.NextPageToken = p.NextPageToken,
              !.nextIdx = 0, !.isLastPage = p.isLastPage]

\* A page request as listPaged sends it for the iterator i: the limit and
\* the marker it carries, whether the store answered it, and the marker of
\* the answer.
PageRequest(i, ok, token) ==
    [ PageSize |-> i.PageSize, PageToken |-> i.PageToken, Prefix |-> i.Prefix,
      ok |-> ok, NextPageToken |-> token ]

\* A failed request that makes the iterator forget the page it holds and
\* the marker it sent.
listPagedFailedRestarts(i) ==
    [ it |-> [i EXCEPT !.PageToken = <<>>, !.hasPage = FALSE], res |-> "err",
      obj |-> NoObject, pages |-> 1, lens |-> <<>>,
      sent |-> <<PageRequest(i, FALSE, <<>>)>> ]

\* How Next ends when listPaged returns an error for the request of the
\* iterator i: the error and no object; the page, nextIdx and isLastPage are
\* not assigned.
listPagedFailed(i) ==
    [ it |-> i, res |-> "err", obj |-> NoObject, pages |-> 1, lens |-> <<>>,
      sent |-> <<PageRequest(i, FALSE, <<>>)>> ]

\* One call of ListIterator.Next that makes at most k page requests: every
\* way it can end (the store fails a request, or answers it with some number
\* of entries): the iterator after the call, what the call returned, the
\* requests it made (their number and, in order, the requests), and the
\* sizes of the pages it loaded.
RECURSIVE NextRun(_, _, _)
NextRun(i, bkt, k) ==
    IF i.hasPage /\ i.nextIdx < Len(i.Objects)
    THEN {[ it |-> [i EXCEPT !.nextIdx = @ + 1], res |-> "obj",
            obj |-> ToListObject(i.Objects[i.nextIdx + 1]), pages |-> 0,
            lens |-> <<>>, sent |-> <<>> ]}
    ELSE IF i.hasPage /\ i.isLastPage
    THEN {[ it |-> i, res |-> "eof", obj |-> NoObject, pages |-> 0, lens |-> <<>>,
            sent |-> <<>> ]}
    ELSE IF k = 0 THEN {}
    ELSE LET i1 == IF i.hasPage THEN [i EXCEPT !.PageToken = i.NextPageToken] ELSE i
         IN {listPagedFailed(i1)}
            \cup UNION {
                LET pg == listPaged(bkt, i1, n)
                IN { [r EXCEPT !.pages = @ + 1, !.lens = <<Len(pg.Objects)>> \o @,
                               !.sent = <<PageRequest(i1, TRUE, pg.NextPageToken)>> \o @] :
                       r \in NextRun(LoadPage(i1, pg), bkt, k - 1) } :
                n \in MayReturn(bkt, i1.Prefix, i1.Delimiter, i1.PageSize, i1.PageToken) }

\* The options given to Bucket.List: nil, or a prefix, a delimiter and a
\* page token.
ListOptionsSet ==
    { NilOptions }
    \cup [ isNil : {FALSE}, Prefix : ListPrefixes, Delimiter : Delimiters,
           PageToken : { <<>>, <<"a">> } ]

\* Bucket.List(opts): the caller starts a new iteration.
NewList ==
    /\ \E opts \in ListOptionsSet : it' = ListOf(opts)
    /\ out' = <<>>
    /\ last' = "none"
    /\ reqs' = <<>>
    /\ pageLens' = <<>>
    /\ nEof' = 0
    /\ failed' = FALSE
    /\ puts' = <<>>
    /\ UNCHANGED <<bucket, syncVars, fileVars, openVars, dirVars, statVars, mountVars, regionVars, uploadVars>>

\* ListIterator.Next, the whole call, page loads included.
IterNext ==
    /\ nEof < MaxEofs
    /\ \E r \in NextRun(it, bucket, MaxFetch) :
          /\ Len(pageLens) + Len(r.lens) <= MaxPages
          /\ it' = r.it
          /\ last' = r.res
          /\ out' = IF r.res = "obj" THEN Append(out, r.obj) ELSE out
          /\ reqs' = r.sent
          /\ pageLens' = pageLens \o r.lens
          /\ nEof' = IF r.res = "eof" THEN nEof + 1 ELSE nEof
          /\ failed' = (failed \/ r.res = "err")
    /\ puts' = puts
    /\ UNCHANGED <<bucket, syncVars, fileVars, openVars, dirVars, statVars, mountVars, regionVars, uploadVars>>


----------------------------------------------------------------------------
(* The list iterator's runs *)

ListIdle ==
    /\ it = List(<<>>, <<>>) /\ out = <<>> /\ last = "none"
    /\ reqs = <<>> /\ pageLens = <<>> /\ nEof = 0 /\ failed = FALSE /\ puts = <<>>
SyncIdle == /\ local = <<>> /\ marker = FALSE /\ pass = <<>> /\ stubLog = <<>> /\ faults = 0
FileIdle == /\ fsys = <<>> /\ files = <<>> /\ handles = <<>> /\ notified = <<>>
OpenIdle == opened = <<>>
DirIdle == /\ dirRead = <<>> /\ walked = <<>>
StatIdle == statted = <<>>
MountIdle == /\ hosts = <<>> /\ registered = <<>> /\ parsed = <<>> /\ mounted = <<>>
RegionIdle == /\ regionV2Cache = <<>> /\ flights = <<>> /\ callers = <<>> /\ nQueries = 0
UploadIdle == /\ upload = <<>> /\ progress = <<>>

InitList ==
    /\ bucket \in Buckets(ListKeys)
    /\ ListIdle
    /\ DirIdle
    /\ StatIdle
    /\ MountIdle
    /\ RegionIdle /\ UploadIdle
    /\ SyncIdle
    /\ FileIdle
    /\ OpenIdle

NextList == NewList \/ IterNext

SpecList == InitList /\ [][NextList]_vars

\* What one unpaged listing of the iterator's (prefix, delimiter) holds: the
\* objects of the store's whole answer, in its order.
Unpaged ==
    LET all == ListEntries(bucket, it.Prefix, it.Delimiter)
        ret == ListFilesWithContext(bucket, it.Prefix, it.Delimiter, Len(all), <<>>, Len(all))
    IN [ i \in 1..Len(ret.Items) |-> ToListObject(ret.Items[i]) ]

\* C1: once Next has returned end-of-sequence, the objects it produced have
\* keys in non-decreasing byte order, no two of them have the same key, and
\* they are the objects of one unpaged listing of the same prefix and
\* delimiter, none omitted.
C1_PagedListingSortedComplete ==
    last = "eof" =>
        /\ \A i, j \in 1..Len(out) : i < j => LexLeq(out[i].Key, out[j].Key)
        /\ \A i, j \in 1..Len(out) : i < j => out[i].Key # out[j].Key
        /\ out = Unpaged

\* The common prefixes the store groups keys under for the iterator's
\* (prefix, delimiter).
GroupedPrefixes ==
    LET es == ListEntries(bucket, it.Prefix, it.Delimiter)
    IN { es[i].Key : i \in { j \in 1..Len(es) : es[j].IsPrefix } }

\* C14: once Next has returned end-of-sequence on an iterator with a
\* non-empty delimiter, each prefix the delimiter groups keys under has been
\* produced exactly once, as an entry with IsDir set, the key of the prefix
\* (with or without the closing delimiter) and zero size and time.
C14_GroupedPrefixOnce ==
    (last = "eof" /\ it.Delimiter # <<>>) =>
        \A g \in GroupedPrefixes :
            /\ Cardinality({ i \in 1..Len(out) :
                               out[i].Key \in {g, SubSeq(g, 1, Len(g) - 1)} }) = 1
            /\ \A i \in 1..Len(out) :
                  out[i].Key \in {g, SubSeq(g, 1, Len(g) - 1)} =>
                      out[i].IsDir /\ out[i].Size = 0 /\ out[i].ModTime = 0

RECURSIVE SumSeq(_)
SumSeq(q) == IF q = <<>> THEN 0 ELSE Head(q) + SumSeq(Tail(q))

\* C15: Next returns io.EOF only when the iterator has returned every object
\* of every page it loaded, once, and these are all the objects of the
\* listing; after io.EOF every later Next returns io.EOF again, requests no
\* page and returns no object.
C15_EofTerminal ==
    /\ nEof >= 1 =>
          /\ last = "eof"
          /\ Len(out) = SumSeq(pageLens)
          /\ out = Unpaged
          /\ it.hasPage /\ it.isLastPage /\ it.nextIdx = Len(it.Objects)
    /\ nEof >= 2 => reqs = <<>>

\* Next returned io.EOF twice, after two objects or more from two pages or
\* more.
C15_Witness ==
    /\ nEof = 2
    /\ Len(pageLens) >= 2
    /\ Len(out) >= 2

\* The marker of the page the iterator i loaded last, empty before the first.
LoadedToken(i) == IF i.hasPage THEN i.NextPageToken ELSE <<>>

\* C32: every page request of an iterator made by Bucket.List, for any
\* options and for nil, carries the positive page size 1000 and, as its
\* marker, the NextPageToken of the page loaded before it; the requests made
\* before any page is loaded carry the empty marker.
C32_PageRequests ==
    /\ [](pageLens = <<>> => \A k \in 1..Len(reqs) : reqs[k].PageToken = <<>>)
    /\ [][ \A k \in 1..Len(reqs') :
             /\ reqs'[k].PageSize = pageSize
             /\ reqs'[k].PageSize > 0
             /\ reqs'[k].PageToken =
                   IF k = 1 THEN LoadedToken(it) ELSE reqs'[k - 1].NextPageToken ]_vars

\* A call of Next asked for a later page with the marker of the page before
\* it, after an earlier call had loaded the first page.
C32_Witness ==
    /\ Len(pageLens) >= 2
    /\ reqs # <<>>
    /\ reqs[1].PageToken # <<>>
    /\ reqs[Len(reqs)].ok
    /\ reqs[Len(reqs)].PageToken # it.NextPageToken

\* What the iterator i holds of the page it loaded last.
HeldPage(i) == <<i.hasPage, i.Objects, i.NextPageToken, i.nextIdx, i.isLastPage>>

\* C38: a call of Next whose page request fails returns the error and no
\* object, and leaves the page the iterator holds as it is when that request
\* was the first of the call; the next call that asks for a page asks with
\* the marker of the failed request; and once Next returns io.EOF, failed
\* requests or not, the objects returned are those of the listing, each
\* once.
C38_FailedFetchKeepsIterator ==
    /\ [](nEof >= 1 => out = Unpaged)
    /\ [](last = "err" => /\ reqs # <<>>
                          /\ ~reqs[Len(reqs)].ok
                          /\ failed)
    /\ [][ /\ (last' = "err" /\ reqs' # <<>>) =>
                 /\ out' = out
                 /\ Len(reqs') = 1 => HeldPage(it') = HeldPage(it)
           /\ (last = "err" /\ reqs' # <<>>) =>
                 /\ reqs'[1].PageToken = reqs[Len(reqs)].PageToken
                 /\ reqs'[1].Prefix = reqs[Len(reqs)].Prefix ]_vars

\* After a failed request for the second page, Next went on and returned
\* io.EOF with two objects or more from two pages or more.
C38_Witness ==
    /\ failed
    /\ nEof >= 1
    /\ Len(pageLens) >= 2
    /\ Len(out) >= 2

\* The sizes of the pages loaded between two states, in order.
LoadedSince(before, after) == SubSeq(after, Len(before) + 1, Len(after))

\* C39: a call of Next that loads an empty page that is not the last one
\* goes on to request the following page: of the pages one call loads, all
\* but the last are empty, the call returns io.EOF only on a last page with
\* every object of the listing returned, and an object whenever the page it
\* ends on is not empty; every call that needs no more than MaxFetch pages
\* returns an object, io.EOF or an error.
C39_SkipsEmptyPages ==
    /\ [](last \in {"none", "obj", "eof", "err"})
    /\ [](last = "eof" => it.hasPage /\ it.isLastPage /\ Len(out) = Len(Unpaged))
    /\ [](LET runs == NextRun(it, bucket, MaxFetch)
          IN /\ runs # {}
             /\ \A r \in runs : /\ r.res \in {"obj", "eof", "err"}
                                 /\ Len(r.sent) <= MaxFetch
                                 /\ r.res = "obj" <=> r.obj # NoObject)
    /\ [][ reqs' # <<>> =>
             LET lens == LoadedSince(pageLens, pageLens')
             IN /\ last' \in {"obj", "eof", "err"}
                /\ \A j \in 1..(Len(lens) - 1) : lens[j] = 0
                /\ \A j \in 1..(Len(reqs') - 1) : reqs'[j].ok
                /\ last' = "err" <=> ~reqs'[Len(reqs')].ok
                /\ last' = "obj" <=> (lens # <<>> /\ lens[Len(lens)] > 0
                                                  /\ reqs'[Len(reqs')].ok)
                /\ last' = "eof" => lens # <<>> /\ lens[Len(lens)] = 0 ]_vars

\* One call of Next loaded an empty page that was not the last one, then the
\* page after it, and returned an object of that page.
C39_Witness ==
    /\ last = "obj"
    /\ Len(reqs) >= 2
    /\ \A j \in 1..Len(reqs) : reqs[j].ok
    /\ Len(pageLens) >= 2
    /\ pageLens[Len(pageLens) - 1] = 0
    /\ pageLens[Len(pageLens)] > 0

----------------------------------------------------------------------------
(* The list iterator while objects are put into the bucket *)

\* The remote store gains an object while the iterator is in use; what the
\* iterator held then is recorded with the key.
ListPut ==
    /\ Len(puts) < MaxPuts
    /\ \E k \in ListKeys \ bucket :
         /\ bucket' = bucket \cup {k}
         /\ puts' = Append(puts, [ Key |-> k, loaded |-> Len(pageLens),
                                    isLastPage |-> it.isLastPage,
                                    token |-> it.NextPageToken ])
    /\ UNCHANGED <<it, out, last, reqs, pageLens, nEof, failed, syncVars, fileVars, openVars,
                   dirVars, statVars, mountVars, regionVars, uploadVars>>

NextListPut == NewList \/ IterNext \/ ListPut

SpecListPut == InitList /\ [][NextListPut]_vars

\* The put was made between the first and the second page request, of a key
\* beyond the marker of the first page.
BeyondMarker(u) ==
    /\ u.loaded = 1
    /\ ~u.isLastPage
    /\ LexLess(u.token, u.Key)

\* C16: when the listing came in two pages of sizes 2 and 1, and any object
\* put meanwhile was put between the two page requests with a key beyond the
\* marker, the iterator has produced exactly 3 objects at end-of-sequence,
\* no key twice, and every key that was in the bucket from the start.
C16_TwoPagesThreeObjects ==
    ( /\ last = "eof"
      /\ pageLens = <<2, 1>>
      /\ \A i \in 1..Len(puts) : BeyondMarker(puts[i]) ) =>
        /\ Len(out) = 3
        /\ \A i, j \in 1..Len(out) : i < j => out[i].Key # out[j].Key
        /\ \A k \in bucket \ { puts[i].Key : i \in 1..Len(puts) } :
              HasPrefix(k, it.Prefix) => \E i \in 1..Len(out) : out[i].Key = k

----------------------------------------------------------------------------
(* The kodo package's Bucket.ReaddirContext, and kodofs.go: Bucket.Open *)

Slash == <<"/">>
IndexHtml == <<"/", "i", "n", "d", "e", "x", ".", "h", "t", "m", "l">>

\* NewFileInfo that leaves the modification time unset.
NewFileInfoNoMtime(name, size, mtime) ==
    [ name |-> name, size |-> size, mtime |-> 0, isDir |-> FALSE ]

\* xfs.NewFileInfo(name, size) with Mtime set, and xfs.NewDirInfo(name).
NewFileInfo(name, size, mtime) ==
    [ name |-> name, size |-> size, mtime |-> mtime, isDir |-> FALSE ]
NewDirInfo(name) ==
    [ name |-> name, size |-> 0, mtime |-> 0, isDir |-> TRUE ]

\* The prefix ReaddirContext lists for dir.
DirPrefix(dir) ==
    IF dir = Slash THEN <<>>
    ELSE LET d == TrimPrefix(dir, Slash)
         IN IF HasSuffix(d, Slash) THEN d ELSE d \o Slash

\* PageInfos reading the Items alone, as listPaged does.
PageInfosItemsOnly(d, ret) ==
    [ i \in 1..Len(ret.Items) |->
        NewFileInfo(SliceFrom(ret.Items[i].Key, Len(d)), ret.Items[i].Fsize,
                    fromPutTime(ret.Items[i].PutTime)) ]

\* The records ReaddirContext appends for one answer of the store: the
\* Items, then the CommonPrefixes.
PageInfos(d, ret) ==
    [ i \in 1..Len(ret.Items) |->
        NewFileInfo(SliceFrom(ret.Items[i].Key, Len(d)), ret.Items[i].Fsize,
                    fromPutTime(ret.Items[i].PutTime)) ]
    \o [ i \in 1..Len(ret.CommonPrefixes) |->
        NewDirInfo(SubSeq(ret.CommonPrefixes[i], Len(d) + 1,
                          Len(ret.CommonPrefixes[i]) - 1)) ]

\* The page loop of ReaddirContext from the marker mark with fis collected,
\* making at most k page requests: every way it can end.
RECURSIVE ReaddirLoop(_, _, _, _, _)
ReaddirLoop(bkt, d, mark, fis, k) ==
    IF k = 0 THEN {}
    ELSE {[ res |-> "err", fis |-> <<>>, pages |-> 1 ]}
         \cup UNION {
            LET ret == ListFilesWithContext(bkt, d, Slash, pageSize, mark, n)
                fis1 == fis \o PageInfos(d, ret)
            IN IF ~ret.hasNext
               THEN {[ res |-> "ok", fis |-> fis1, pages |-> 1 ]}
               ELSE { [r EXCEPT !.pages = @ + 1] :
                        r \in ReaddirLoop(bkt, d, ret.Marker, fis1, k - 1) } :
            n \in MayReturn(bkt, d, Slash, pageSize, mark) }

\* Bucket.ReaddirContext(dir).
ReaddirContext(bkt, dir) == ReaddirLoop(bkt, DirPrefix(dir), <<>>, <<>>, MaxFetch)

isIndexPage(name) == HasSuffix(name, IndexHtml)

\* path.Base.
RECURSIVE PathBase(_)
PathBase(name) ==
    IF name = <<>> THEN <<".">>
    ELSE IF name = Slash THEN Slash
    ELSE IF HasSuffix(name, Slash) THEN PathBase(SubSeq(name, 1, Len(name) - 1))
    ELSE IF \E i \in 1..Len(name) : name[i] = "/"
    THEN LET k == CHOOSE i \in 1..Len(name) :
                     name[i] = "/" /\ \A j \in (i + 1)..Len(name) : name[j] # "/"
         IN SubSeq(name, k + 1, Len(name))
    ELSE name

\* What the single-object fetch opener.Open(ctx, host+name) may return: the
\* object, a not-exist error, or another error (the network, the host).
FetchOutcomes(bkt, name) ==
    (IF TrimPrefix(name, Slash) \in bkt THEN {"ok"} ELSE {"notexist"}) \cup {"other"}

NoHandle ==
    [ name |-> <<>>, asked |-> <<>>, kind |-> "none", err |-> "none", via |-> "none",
      fis |-> <<>>, dirName |-> <<>>, fetched |-> "none", pages |-> 0, read |-> <<>>,
      nRead |-> 0, nClose |-> 0, closeErr |-> "none" ]

\* ReturnsFetch without the index-page test.
ReturnsFetchNoIndexPage(name, fetch) ==
    fetch = "ok" \/ fetch # "notexist"

\* Whether Open returns the result of the single-object fetch as it is.
ReturnsFetch(name, fetch) ==
    fetch = "ok" \/ isIndexPage(name) \/ fetch # "notexist"

\* NoChildren that never holds.
NoChildrenNever(fis) == FALSE

\* Whether Open takes the listing to be of no directory: len(fis) == 0.
NoChildren(fis) == Len(fis) = 0

\* Bucket.Open(name): every way the call can end: the handle or the error,
\* where it came from (via), and the page requests made.
BucketOpen(bkt, name, fetch) ==
    IF name # Slash /\ ReturnsFetch(name, fetch)
    THEN {[ NoHandle EXCEPT !.name = name, !.fetched = fetch, !.via = "fetch",
              !.kind = IF fetch = "ok" THEN "file" ELSE "err",
              !.err = IF fetch = "ok" THEN "none" ELSE fetch ]}
    ELSE { LET h == [ NoHandle EXCEPT !.name = name, !.pages = r.pages,
                        !.fetched = IF name = Slash THEN "none" ELSE fetch ]
           IN IF r.res = "err"
              THEN [h EXCEPT !.kind = "err", !.err = "other", !.via = "readdir"]
              ELSE IF NoChildren(r.fis)
              THEN [h EXCEPT !.kind = "err", !.err = "notexist", !.via = "empty"]
              ELSE [h EXCEPT !.kind = "dir", !.via = "readdir", !.fis = r.fis,
                             !.dirName = PathBase(name)] :
           r \in ReaddirContext(bkt, name) }

OpenKeys ==
    { <<"a", "/">>, <<"a", "/", "x">>, <<"a", "/", "y">>, <<"a", "/", "y", "/", "z">>,
      <<"b">>, Tail(IndexHtml), Tail(IndexHtml) \o <<"/", "z">> }
OpenNames ==
    { Slash, <<"/", "a">>, <<"/", "a", "/", "x">>, <<"/", "a", "/", "y">>, <<"/", "b">>,
      IndexHtml }

\* Bucket.Open(name), the whole call.
Open ==
    /\ \E name \in OpenNames :
         \E fetch \in FetchOutcomes(bucket, name) :
            opened' \in BucketOpen(bucket, name, fetch)
    /\ UNCHANGED <<bucket, listVars, syncVars, fileVars, dirVars, statVars, mountVars, regionVars, uploadVars>>

\* Readdir(-1) on the directory handle Open returned (xfs.Dir): its records.
DirReaddir ==
    /\ opened.kind = "dir"
    /\ opened.nRead = 0
    /\ opened' = [opened EXCEPT !.read = opened.fis, !.nRead = 1]
    /\ UNCHANGED <<bucket, listVars, syncVars, fileVars, dirVars, statVars, mountVars, regionVars, uploadVars>>

\* DirInfo.Close: returns nil and does nothing.
DirClose ==
    /\ opened.kind = "dir"
    /\ opened.nClose = 0
    /\ opened' = [opened EXCEPT !.nClose = 1, !.closeErr = "none"]
    /\ UNCHANGED <<bucket, listVars, syncVars, fileVars, dirVars, statVars, mountVars, regionVars, uploadVars>>

InitOpen ==
    /\ bucket \in Buckets(OpenKeys)
    /\ ListIdle
    /\ DirIdle
    /\ StatIdle
    /\ MountIdle
    /\ RegionIdle /\ UploadIdle
    /\ SyncIdle
    /\ FileIdle
    /\ opened = NoHandle

NextOpen == Open \/ DirReaddir \/ DirClose

SpecOpen == InitOpen /\ [][NextOpen]_vars

----------------------------------------------------------------------------
(* remote.SyncOpen with a kodofs Bucket as the bucket it opens *)

\* The name SyncOpen passes to bucket.Open for the name it is called with.
SyncOpenName(name) == IF name = Slash THEN <<".">> ELSE TrimPrefix(name, Slash)

\* What opener.Open(ctx, host+name) may return for a name without a leading
\* slash: the url is the host with the name appended to it, not a key of the
\* bucket at the host, and any answer is possible.
FetchOutcomesOfJoined(name) == {"ok", "notexist", "other"}

SyncBucketKeys ==
    { <<"x">>, <<"a", "/", "b", "/", "z">>, <<"a", "/", "y">>, <<".", "/", "x">> }
SyncBucketNames == { Slash, <<"/", "a">>, <<"/", "a", "/", "b">> }

\* remote.SyncOpen(local, name) up to the return of p.bucket.Open(name), the
\* bucket being a kodofs Bucket: asked is the name SyncOpen was called with.
SyncOpenBucket ==
    /\ \E asked \in SyncBucketNames :
         LET name == SyncOpenName(asked)
         IN \E fetch \in (IF HasPrefix(name, Slash) THEN FetchOutcomes(bucket, name)
                                                   ELSE FetchOutcomesOfJoined(name)) :
               \E h \in BucketOpen(bucket, name, fetch) :
                  opened' = [h EXCEPT !.asked = asked]
    /\ UNCHANGED <<bucket, listVars, syncVars, fileVars, dirVars, statVars, mountVars, regionVars, uploadVars>>

InitSyncBucket ==
    /\ bucket \in Buckets(SyncBucketKeys)
    /\ opened = NoHandle
    /\ ListIdle /\ DirIdle /\ StatIdle /\ MountIdle /\ RegionIdle /\ UploadIdle /\ SyncIdle /\ FileIdle

NextSyncBucket == SyncOpenBucket

SpecSyncBucket == InitSyncBucket /\ [][NextSyncBucket]_vars

\* The records a ReaddirContext call of dir that succeeds may return.
ListingsOf(bkt, dir) == { r.fis : r \in { q \in ReaddirContext(bkt, dir) : q.res = "ok" } }

\* C37: SyncOpen of "/" with a kodofs Bucket as the remote does what
\* Bucket.Open("/") does: it attempts no single-object fetch and lists the
\* empty prefix, so the directory it returns holds the top-level entries of
\* the bucket; SyncOpen of "/a/b" that returns a directory returns the
\* entries under the prefix "a/b/".
C37_RootAsBucketOpen ==
    /\ opened.asked = Slash =>
          /\ opened.fetched = "none"
          /\ opened.kind = "dir" => opened.fis \in ListingsOf(bucket, Slash)
          /\ opened.kind # "dir" => ListingsOf(bucket, Slash) \subseteq {<<>>}
                                     \/ opened.err = "other"
    /\ (opened.asked = <<"/", "a", "/", "b">> /\ opened.kind = "dir") =>
          opened.fis \in ListingsOf(bucket, <<"/", "a", "/", "b">>)

----------------------------------------------------------------------------
(* Bucket.Open: which fetch errors it returns, and the directories it infers *)

FetchFailed == opened.name # Slash /\ opened.fetched \in {"notexist", "other"}

\* C9, as claimed: a failed fetch of a non-root name is returned to the
\* caller exactly when it is a not-found failure and (the name is no index
\* page or the failure is not a not-found one); otherwise Open goes on to
\* list the name as a directory prefix.
C9_AsClaimed ==
    FetchFailed =>
        ( opened.via = "fetch"
          <=> ( opened.fetched = "notexist"
                /\ (~isIndexPage(opened.name) \/ opened.fetched # "notexist") ) )

\* C9, amended: a failed fetch of a non-root name is returned to the caller,
\* with no listing requested, exactly when the name ends in "/index.html" or
\* the failure is not a not-found one; in the one other case (not found, no
\* index page) Open goes on to list the name as a directory prefix.
C9_FetchErrorReturned ==
    FetchFailed =>
        /\ opened.via = "fetch"
             <=> (isIndexPage(opened.name) \/ opened.fetched # "notexist")
        /\ opened.via = "fetch"
             => opened.kind = "err" /\ opened.err = opened.fetched /\ opened.pages = 0
        /\ opened.via # "fetch"
             => opened.via \in {"readdir", "empty"} /\ opened.pages >= 1

\* A not-found fetch of an index page, returned although the name has
\* children that a listing would have found.
C9_Witness ==
    /\ opened.name = IndexHtml
    /\ opened.fetched = "notexist"
    /\ opened.via = "fetch"
    /\ opened.err = "notexist"
    /\ \E k \in bucket : HasPrefix(k, DirPrefix(IndexHtml))

\* The immediate children of the prefix d, from the keys alone: what follows
\* d in a key, up to its first "/" if it has one (then the child is a
\* directory), each once.
Children(bkt, d) ==
    { LET rest == SliceFrom(k, Len(d))
          at == IndexOf(rest, "/")
      IN [ name |-> IF at < 0 THEN rest ELSE SubSeq(rest, 1, at), isDir |-> at >= 0 ] :
      k \in { k \in bkt : HasPrefix(k, d) } }

\* The last Open was of a name with no object of its own and some object
\* under it, the fetch (if any) said not found, and the listing did not fail.
InferredDir ==
    /\ opened.kind # "none"
    /\ TrimPrefix(opened.name, Slash) \notin bucket
    /\ Children(bucket, DirPrefix(opened.name)) # {}
    /\ opened.fetched \in {"none", "notexist"}
    /\ ~(opened.kind = "err" /\ opened.via = "readdir")

DirHandleOfChildren ==
    /\ opened.kind = "dir"
    /\ { [name |-> opened.fis[i].name, isDir |-> opened.fis[i].isDir] :
           i \in 1..Len(opened.fis) } = Children(bucket, DirPrefix(opened.name))
    /\ Len(opened.fis) = Cardinality(Children(bucket, DirPrefix(opened.name)))
    /\ opened.nRead = 1 => opened.read = opened.fis
    /\ opened.nClose = 1 => opened.closeErr = "none"

\* C11: when Open lists the name and the listing does not fail, it returns
\* the not-exist error exactly when the name has no child in the bucket (so
\* for the root of an empty bucket), and a directory handle it returns is
\* never one of no children.
C11_EmptyListingNotExist ==
    /\ ( /\ opened.kind # "none"
         /\ opened.via # "fetch"
         /\ ~(opened.kind = "err" /\ opened.via = "readdir") ) =>
            ( Children(bucket, DirPrefix(opened.name)) = {}
              <=> (opened.kind = "err" /\ opened.err = "notexist") )
    /\ opened.kind = "dir" => opened.fis # <<>>

\* The root of an empty bucket was opened and listed: not-exist.
C11_Witness ==
    /\ bucket = {}
    /\ opened.name = Slash
    /\ opened.pages >= 1
    /\ opened.kind = "err"
    /\ opened.err = "notexist"

\* C10, as claimed: for every name with no object of its own and at least
\* one object under name+"/", Open returns a directory handle whose Readdir
\* returns exactly the immediate children, and whose Close returns no error.
C10_AsClaimed == InferredDir => DirHandleOfChildren

\* C10, amended: the same for every name that does not end in "/index.html"
\* (for such a name Open returns the fetch's not-found error and lists
\* nothing); an object whose key is the prefix itself counts as a child of
\* the empty name.
C10_DirectoryInferredFromChildren ==
    (InferredDir /\ ~isIndexPage(opened.name)) => DirHandleOfChildren

\* A directory inferred from a file and a sub-directory listed over two
\* pages, read and closed.
C10_Witness ==
    /\ InferredDir
    /\ opened.kind = "dir"
    /\ opened.pages >= 2
    /\ \E i, j \in 1..Len(opened.fis) : opened.fis[i].isDir /\ ~opened.fis[j].isDir
    /\ opened.nRead = 1
    /\ opened.nClose = 1

----------------------------------------------------------------------------
(* The cached package: stub files, the directory-cached marker, and the     *)
(* directory branch of remote.SyncOpen with its background pass            *)

\* File modes as sets of bits. cached.ModeRemote marks a remote entry.
ModeIrregular == {"irregular"}
ModeDir == {"dir"}
ModeRemote == {"remote"}

\* FileInfo.Mode and DirInfo.Mode.
ModeOf(fi) == IF fi.isDir THEN ModeIrregular \cup ModeDir ELSE ModeIrregular

\* fileInfoRemote{fi}.Mode.
fileInfoRemoteMode(fi) == ModeOf(fi) \cup ModeRemote

\* A link target: form says what the text of the target is: "record" for the
\* base64 text of a serialized record (whose fields follow), "text" for a
\* text that is not URL-safe base64, "bytes" for the base64 text of bytes
\* that are no serialized record.
NoTarget == [ form |-> "none", name |-> <<>>, size |-> 0, mtime |-> 0, mode |-> {} ]
NoEntry == [ kind |-> "none", target |-> NoTarget ]

\* A stub target that also carries how many stub writes were made before it,
\* as one stamped with the time of writing would.
StubTargetStamped(fi) ==
    [ form |-> "record", name |-> fi.name, size |-> fi.size, mtime |-> fi.mtime + Cardinality(stubLog),
      mode |-> fileInfoRemoteMode(fi) ]

\* The link target writeStubFile makes for fi: the encoding of the record's
\* name, size, modification time and mode, the mode with the remote bit.
StubTarget(fi) ==
    [ form |-> "record", name |-> fi.name, size |-> fi.size, mtime |-> fi.mtime,
      mode |-> fileInfoRemoteMode(fi) ]

\* writeStubFile that reports no error when the write failed for a reason
\* outside the program.
writeStubFileSilent(loc, fi, extFail) ==
    IF extFail THEN [ local |-> loc, err |-> FALSE ]
    ELSE IF loc[fi.name].kind # "none" THEN [ local |-> loc, err |-> TRUE ]
    ELSE IF fi.isDir
    THEN [ local |-> [loc EXCEPT ![fi.name] = [kind |-> "dir", target |-> NoTarget]],
           err |-> FALSE ]
    ELSE [ local |-> [loc EXCEPT ![fi.name] =
                        [kind |-> "symlink", target |-> StubTarget(fi)]],
           err |-> FALSE ]

\* writeStubFile that replaces what is at the path.
writeStubFileReplacing(loc, fi, extFail) ==
    IF extFail THEN [ local |-> loc, err |-> TRUE ]
    ELSE IF fi.isDir
    THEN [ local |-> [loc EXCEPT ![fi.name] = [kind |-> "dir", target |-> NoTarget]],
           err |-> FALSE ]
    ELSE [ local |-> [loc EXCEPT ![fi.name] =
                        [kind |-> "symlink",
                         target |-> IF loc[fi.name].kind = "none" THEN StubTarget(fi)
                                    ELSE NoTarget]],
           err |-> FALSE ]

\* writeStubFile that writes a regular file for a file record.
writeStubFileContent(loc, fi, extFail) ==
    IF extFail \/ loc[fi.name].kind # "none"
    THEN [ local |-> loc, err |-> TRUE ]
    ELSE IF fi.isDir
    THEN [ local |-> [loc EXCEPT ![fi.name] = [kind |-> "dir", target |-> NoTarget]],
           err |-> FALSE ]
    ELSE [ local |-> [loc EXCEPT ![fi.name] = [kind |-> "file", target |-> NoTarget]],
           err |-> FALSE ]

\* writeStubFile(base + "/" + fi.Name(), fi) in the directory loc: os.Mkdir
\* or os.Symlink, which fail when the path exists, or for a reason outside
\* the program (extFail), and then create nothing.
writeStubFile(loc, fi, extFail) ==
    IF extFail \/ loc[fi.name].kind # "none"
    THEN [ local |-> loc, err |-> TRUE ]
    ELSE IF fi.isDir
    THEN [ local |-> [loc EXCEPT ![fi.name] = [kind |-> "dir", target |-> NoTarget]],
           err |-> FALSE ]
    ELSE [ local |-> [loc EXCEPT ![fi.name] =
                        [kind |-> "symlink", target |-> StubTarget(fi)]],
           err |-> FALSE ]

\* checkDirCached / touchDirCached: the marker is there; os.WriteFile puts
\* it there unless it fails for a reason outside the program.
checkDirCached(m) == m
touchDirCached(m, extFail) == IF extFail THEN m ELSE TRUE

\* The keys (relative to the directory) the remote directory may hold, and
\* the names of its children.
SyncKeys == { <<"x">>, <<"y", "/", "z">> }
SyncNames == { <<"x">>, <<"y">> }

\* RemoteListing without the sub-directories.
RemoteListingFilesOnly(bkt) ==
    SelectSeq((CHOOSE r \in ReaddirContext(bkt, Slash) : r.res = "ok" /\ r.pages = 1).fis,
              LAMBDA fi : ~fi.isDir)

\* The listing p.bucket.Open(name) and readdir give for the directory.
RemoteListing(bkt) ==
    (CHOOSE r \in ReaddirContext(bkt, Slash) : r.res = "ok" /\ r.pages = 1).fis

Procs == 1..MaxPasses

IdlePass ==
    [ pc |-> "idle", ret |-> "none", fis |-> <<>>, i |-> 0, nError |-> 0, ext |-> 0,
      touched |-> FALSE, touchOK |-> FALSE, sawMarker |-> FALSE, fresh |-> FALSE,
      seq |-> 0, prior |-> {}, conc |-> FALSE, handle |-> <<>>, at |-> {} ]

\* SyncOpenError that lets the background pass go on to its end.
SyncOpenErrorStartsPass(ps) == [ps EXCEPT !.pc = "check", !.ret = "err"]

\* SyncOpen returns the error of bucket.Open or of readdir: no pass.
SyncOpenError(ps) == [ps EXCEPT !.pc = "failed", !.ret = "err"]

\* The loop of the pass ends after its first turn.
AfterWriteFirst(i, n) == "check"

\* Where the pass is after the write for child i of n: in the loop, or past
\* it at the test of nError.
AfterWrite(i, n) == IF i = n THEN "check" ELSE "writing"

Running(q) == pass[q].pc \in {"writing", "check"}

\* The pass touches the marker with any error count.
MayTouchAlways(nError) == TRUE

\* Whether the background pass goes on to touchDirCached.
MayTouch(nError) == nError = 0

\* remote.SyncOpen of the directory, up to its return: bucket.Open and
\* readdir fail (the error is returned), or give the listing, and the
\* background pass is started with it and cached.Dir(o, fis), the handle
\* that holds it, is returned.
SyncOpen(p) ==
    /\ pass[p].pc = "idle"
    /\ \/ /\ pass' = [pass EXCEPT ![p] = SyncOpenError(pass[p])]
       \/ /\ bucket # {}
          /\ pass' = [ q \in Procs |->
                IF q = p
                THEN [ IdlePass EXCEPT !.pc = "writing", !.ret = "dir",
                         !.fis = RemoteListing(bucket), !.i = 1,
                         !.handle = RemoteListing(bucket), !.at = bucket,
                         !.sawMarker = checkDirCached(marker),
                         !.fresh = ~checkDirCached(marker)
                                   /\ \A n \in SyncNames : local[n].kind = "none",
                         !.seq = 1 + Cardinality({ r \in Procs : pass[r].ret = "dir" }),
                         !.prior = { r \in Procs : pass[r].pc = "done" /\ pass[r].nError > 0 },
                         !.conc = \E r \in Procs : Running(r) ]
                ELSE IF Running(q) THEN [pass[q] EXCEPT !.conc = TRUE] ELSE pass[q] ]
    /\ UNCHANGED <<bucket, local, marker, stubLog, faults, listVars, fileVars,
                   openVars, dirVars, statVars, mountVars, regionVars, uploadVars>>

\* One turn of the background pass's loop: writeStubFile for the next child.
WriteStub(p) ==
    /\ pass[p].pc = "writing"
    /\ \E extFail \in BOOLEAN :
         LET fi == pass[p].fis[pass[p].i]
             w == writeStubFile(local, fi, extFail)
         IN /\ extFail => faults < MaxFaults
            /\ local' = w.local
            /\ faults' = IF extFail THEN faults + 1 ELSE faults
            /\ stubLog' = stubLog \cup
                 {[ by |-> p, name |-> fi.name, target |-> StubTarget(fi),
                    before |-> local[fi.name], after |-> w.local[fi.name],
                    err |-> w.err, extFail |-> extFail ]}
            /\ pass' = [pass EXCEPT
                 ![p].nError = IF w.err THEN @ + 1 ELSE @,
                 ![p].ext = IF extFail THEN @ + 1 ELSE @,
                 ![p].i = @ + 1,
                 ![p].pc = AfterWrite(pass[p].i, Len(pass[p].fis))]
    /\ UNCHANGED <<bucket, marker, listVars, fileVars,
                   openVars, dirVars, statVars, mountVars, regionVars, uploadVars>>

\* The end of the background pass: touchDirCached if no write failed, else
\* the warning.
FinishPass(p) ==
    /\ pass[p].pc = "check"
    /\ \/ /\ MayTouch(pass[p].nError)
          /\ \E extFail \in BOOLEAN :
               /\ extFail => faults < MaxFaults
               /\ marker' = touchDirCached(marker, extFail)
               /\ faults' = IF extFail THEN faults + 1 ELSE faults
               /\ pass' = [pass EXCEPT ![p].pc = "done", ![p].touched = TRUE,
                              ![p].touchOK = ~extFail,
                              ![p].ext = IF extFail THEN @ + 1 ELSE @]
       \/ /\ ~MayTouch(pass[p].nError)
          /\ pass' = [pass EXCEPT ![p].pc = "done"]
          /\ UNCHANGED <<marker, faults>>
    /\ UNCHANGED <<bucket, local, stubLog, listVars, fileVars,
                   openVars, dirVars, statVars, mountVars, regionVars, uploadVars>>

\* The remote store gains an object under the directory.
RemotePut ==
    /\ \E k \in SyncKeys \ bucket : bucket' = bucket \cup {k}
    /\ UNCHANGED <<syncVars, listVars, fileVars, openVars, dirVars, statVars, mountVars, regionVars, uploadVars>>

InitSync ==
    /\ bucket \in Buckets(SyncKeys)
    /\ local = [ n \in SyncNames |-> NoEntry ]
    /\ marker = FALSE
    /\ pass = [ p \in Procs |-> IdlePass ]
    /\ stubLog = {}
    /\ faults = 0
    /\ ListIdle
    /\ DirIdle
    /\ StatIdle
    /\ MountIdle
    /\ RegionIdle /\ UploadIdle
    /\ FileIdle
    /\ OpenIdle

NextSync ==
    \/ \E p \in Procs : SyncOpen(p)
    \/ \E p \in Procs : WriteStub(p)
    \/ \E p \in Procs : FinishPass(p)
    \/ RemotePut

SpecSync == InitSync /\ [][NextSync]_vars

----------------------------------------------------------------------------
(* The directory-cached marker and the stub writes *)

Listed(p) == pass[p].ret = "dir"
Done(p) == pass[p].pc = "done"
Names(fis) == { fis[i].name : i \in 1..Len(fis) }
HasEntry(n) == local[n].kind # "none"

\* The listing of the last SyncOpen that got one.
LastListing ==
    LET p == CHOOSE p \in Procs :
                Listed(p) /\ \A q \in Procs : Listed(q) => pass[q].seq <= pass[p].seq
    IN pass[p].fis

\* C2, as claimed: in every state, once a listing was obtained, the marker
\* is present if and only if every child of the last successful remote
\* listing of the directory has a local stub or materialized entry.
C2_AsClaimed ==
    (\E p \in Procs : Listed(p)) =>
        (marker <=> \A n \in Names(LastListing) : HasEntry(n))

\* C2, amended: in every state, if the marker is present then a background
\* pass wrote it after completing every stub write of its listing without
\* error, and every child of the listing of each pass that wrote the marker
\* has a local entry. (The converse fails: all children may have their
\* entries while no pass has written the marker, or ever will.)
C2_MarkerOnlyIfAllStubbed ==
    /\ marker => \E p \in Procs : pass[p].touchOK /\ pass[p].nError = 0
    /\ \A p \in Procs :
         pass[p].touchOK => \A n \in Names(pass[p].fis) : HasEntry(n)

\* The marker is present, written by a pass over two children or more, while
\* another pass of the same directory had failed writes.
C2_Witness ==
    /\ marker
    /\ \E p, q \in Procs :
         /\ pass[p].touchOK
         /\ Len(pass[p].fis) >= 2
         /\ Done(q)
         /\ pass[q].nError > 0

\* Two SyncOpen calls that both listed the directory before it had any
\* local entry or marker, no other call having listed it, both passes done.
BothFresh(p, q) ==
    /\ p # q
    /\ pass[p].fresh /\ pass[q].fresh
    /\ Done(p) /\ Done(q)
    /\ \A r \in Procs \ {p, q} : ~Listed(r)

C5_AsClaimed ==
    /\ \A q \in Procs :
         ( Done(q) /\ pass[q].nError > 0 /\ ~pass[q].conc /\ ~pass[q].sawMarker
           /\ \A r \in Procs \ {q} : Listed(r) => pass[r].seq < pass[q].seq )
         => ~marker
    /\ \A p \in Procs :
         ( Done(p) /\ pass[p].prior # {} /\ pass[p].ext = 0 /\ ~pass[p].conc )
         => marker

\* C6: a background pass calls touchDirCached only if none of its
\* writeStubFile calls returned an error.
C6_NoTouchAfterFailedWrite ==
    \A p \in Procs :
        pass[p].touched =>
            /\ pass[p].nError = 0
            /\ \A e \in stubLog : e.by = p => ~e.err

\* A pass with a failed write is done and did not touch the marker; another
\* pass, without one, did.
C6_Witness ==
    \E p, q \in Procs :
        /\ Done(p) /\ pass[p].nError > 0 /\ ~pass[p].touched
        /\ Done(q) /\ pass[q].touched

\* The writeStubFile calls the pass of p has made.
WritesBy(p) == { e \in stubLog : e.by = p }

\* C21: a SyncOpen that got the listing has returned the directory handle,
\* and keeps it, whatever stub writes or marker write of its pass fail; the
\* handle holds one record for each child the bucket had when it was
\* listed, files with their sizes, whatever the bucket holds now.
C21_ListingDespiteWriteFailures ==
    \A p \in Procs :
        ( pass[p].pc \in {"writing", "check", "done"}
          \/ pass[p].nError > 0 \/ pass[p].touched ) =>
            /\ pass[p].ret = "dir"
            /\ { [name |-> pass[p].handle[i].name, isDir |-> pass[p].handle[i].isDir] :
                    i \in 1..Len(pass[p].handle) } = Children(pass[p].at, <<>>)
            /\ Len(pass[p].handle) = Cardinality(Children(pass[p].at, <<>>))
            /\ \A i \in 1..Len(pass[p].handle) :
                  ~pass[p].handle[i].isDir =>
                      pass[p].handle[i].size = ObjFsize(pass[p].handle[i].name)

\* Every stub write of a finished pass failed; its handle has the listed
\* children, and the bucket has gained an object since it was listed.
C21_Witness ==
    \E p \in Procs :
        /\ Done(p)
        /\ Len(pass[p].fis) >= 1
        /\ pass[p].nError = Len(pass[p].fis)
        /\ Len(pass[p].handle) = Len(pass[p].fis)
        /\ bucket # pass[p].at

\* C29: a pass touches the marker only after it has made the writeStubFile
\* call for every child of its listing, and while it is in its loop it has
\* not touched it; so when the marker is present, some pass wrote it and
\* every child of that pass's listing has a local entry.
C29_MarkerAfterLastStubWrite ==
    /\ \A p \in Procs :
         /\ pass[p].touched =>
               /\ Cardinality(WritesBy(p)) = Len(pass[p].fis)
               /\ pass[p].i = Len(pass[p].fis) + 1
         /\ pass[p].pc = "writing" =>
               /\ ~pass[p].touched
               /\ Cardinality(WritesBy(p)) = pass[p].i - 1
    /\ marker =>
         \E p \in Procs :
            /\ pass[p].touchOK
            /\ \A i \in 1..Len(pass[p].fis) : HasEntry(pass[p].fis[i].name)

\* SyncOpen has returned to a caller whose pass has written no stub yet,
\* while the marker, written by a pass over two children, is present.
C29_Witness ==
    /\ marker
    /\ \E p, q \in Procs :
         /\ pass[p].touchOK
         /\ Len(pass[p].fis) = 2
         /\ pass[q].ret = "dir"
         /\ pass[q].pc = "writing"
         /\ WritesBy(q) = {}

\* C30: a SyncOpen that returned the error of bucket.Open or of readdir has
\* no listing and no handle, has started no pass, and has made no stub
\* write and no marker write; and as long as no SyncOpen got a listing the
\* local directory has no entry and no marker.
C30_FailedOpenLeavesNothing ==
    /\ \A p \in Procs :
         pass[p].ret = "err" =>
            /\ pass[p].pc = "failed"
            /\ pass[p].fis = <<>> /\ pass[p].handle = <<>>
            /\ pass[p].nError = 0
            /\ ~pass[p].touched
            /\ WritesBy(p) = {}
    /\ (\A p \in Procs : ~Listed(p)) =>
         /\ ~marker
         /\ stubLog = {}
         /\ \A n \in SyncNames : ~HasEntry(n)

\* Every SyncOpen failed on a bucket that holds objects: nothing local.
C30_Witness ==
    /\ bucket # {}
    /\ \A p \in Procs : pass[p].ret = "err"
    /\ ~marker
    /\ \A n \in SyncNames : ~HasEntry(n)

\* C31: a writeStubFile call that reports an error leaves the path as it
\* was; one that reports none found no entry and left a directory for a
\* directory record, and for a file record a symlink whose target is the
\* base64 text of the record (its name, size and time) with the remote mode
\* bit. No entry of the directory is a regular file, and every step changes
\* at most one entry, from nothing to a directory or a symlink.
C31_StubsOnly ==
    /\ []( /\ \A e \in stubLog :
                /\ e.err => e.after = e.before
                /\ ~e.err =>
                      /\ e.before.kind = "none"
                      /\ IF ModeDir \subseteq e.target.mode
                         THEN e.after = [ kind |-> "dir", target |-> NoTarget ]
                         ELSE /\ e.after = [ kind |-> "symlink", target |-> e.target ]
                              /\ e.target.form = "record"
                              /\ ModeRemote \subseteq e.target.mode
                              /\ \E i \in 1..Len(pass[e.by].fis) :
                                    /\ pass[e.by].fis[i].name = e.target.name
                                    /\ pass[e.by].fis[i].size = e.target.size
                                    /\ pass[e.by].fis[i].mtime = e.target.mtime
                                    /\ ~pass[e.by].fis[i].isDir
           /\ \A n \in SyncNames : local[n].kind \in {"none", "dir", "symlink"} )
    /\ [][ \A n \in SyncNames :
              local'[n] # local[n] =>
                 /\ local[n].kind = "none"
                 /\ local'[n].kind \in {"dir", "symlink"}
                 /\ \A m \in SyncNames \ {n} : local'[m] = local[m] ]_vars

\* Two passes have finished and the directory holds the stub of the file x,
\* the directory y and the marker.
C31_Witness ==
    /\ \A p \in Procs : Done(p)
    /\ marker
    /\ local[<<"x">>].kind = "symlink"
    /\ local[<<"x">>].target.size = ObjFsize(<<"x">>)
    /\ local[<<"y">>].kind = "dir"

----------------------------------------------------------------------------
(* The cached package: readStubFile, remote.Lstat and remote.SyncLstat      *)

ModeSymlink == {"symlink"}

\* The local directory itself, as a name to stat.
Dot == <<".">>

NoInfo == [ name |-> <<>>, size |-> 0, mtime |-> 0, mode |-> {}, isDir |-> FALSE ]

\* os.Lstat of an entry of the local directory: the local file system's own
\* record of it (a directory, a regular file, or a symlink of the length of
\* its target),
\* with the local time of the entry.
LocalInfo(n, e) ==
    [ name |-> n,
      size |-> IF e.kind = "dir" THEN 4096
               ELSE IF e.kind = "file" THEN 7
               ELSE 40 + Len(e.target.name),
      mtime |-> 1,
      mode |-> IF e.kind = "dir" THEN ModeDir
               ELSE IF e.kind = "file" THEN {}
               ELSE ModeSymlink,
      isDir |-> e.kind = "dir" ]

\* os.Lstat(localFile) for the directory itself or one of its children.
osLstat(loc, n) ==
    IF n = Dot
    THEN [ err |-> "none", fi |-> LocalInfo(n, [kind |-> "dir", target |-> NoTarget]) ]
    ELSE IF loc[n].kind = "none"
    THEN [ err |-> "notexist", fi |-> NoInfo ]
    ELSE [ err |-> "none", fi |-> LocalInfo(n, loc[n]) ]

\* isRemote: the entry is a symlink.
isRemote(fi) == ModeSymlink \subseteq fi.mode

\* base64.URLEncoding.DecodeString of a link target: the bytes, or an error
\* for a text that is not URL-safe base64.
base64DecodeString(target) ==
    IF target.form \in {"record", "bytes"}
    THEN [ err |-> "none", b |-> target ]
    ELSE [ err |-> "corrupt", b |-> NoTarget ]

\* A FileInfoFrom that makes a record of any bytes.
FileInfoFromAny(target) ==
    [ err |-> "none",
      fi |-> [ name |-> target.name, size |-> target.size, mtime |-> target.mtime,
               mode |-> target.mode, isDir |-> ModeDir \subseteq target.mode ] ]

\* xdir.FileInfoFrom of the decoded bytes: the record whose name, size,
\* modification time and mode they serialize; bytes that serialize none do
\* not decode.
FileInfoFrom(target) ==
    IF target.form # "record"
    THEN [ err |-> "invalid", fi |-> NoInfo ]
    ELSE [ err |-> "none",
           fi |-> [ name |-> target.name, size |-> target.size, mtime |-> target.mtime,
                    mode |-> target.mode, isDir |-> ModeDir \subseteq target.mode ] ]

\* readStubFile that returns the local record in every case.
readStubFileLocal(loc, n, fi) == fi

\* readStubFile(localFile, fi): the record the link's target decodes to, or
\* fi when the path is no symlink or its target does not decode.
readStubFile(loc, n, fi) ==
    IF loc[n].kind # "symlink" THEN fi
    ELSE IF base64DecodeString(loc[n].target).err # "none" THEN fi
    ELSE IF FileInfoFrom(base64DecodeString(loc[n].target).b).err # "none" THEN fi
    ELSE FileInfoFrom(base64DecodeString(loc[n].target).b).fi

\* remote.Lstat that tags no directory.
remoteLstatNeverTags(loc, m, n) ==
    LET st == osLstat(loc, n)
    IN IF st.err # "none" THEN st
       ELSE IF isRemote(st.fi)
       THEN [ err |-> "none", fi |-> readStubFile(loc, n, st.fi) ]
       ELSE st

\* remote.Lstat(localFile): the error of os.Lstat; a directory, tagged remote
\* when it holds no marker (a child directory, which nothing has synced,
\* holds none); for a symlink the record read from the stub.
remoteLstat(loc, m, n) ==
    LET st == osLstat(loc, n)
    IN IF st.err # "none" THEN st
       ELSE IF st.fi.isDir
       THEN IF ~checkDirCached(IF n = Dot THEN m ELSE FALSE)
            THEN [ err |-> "none", fi |-> [st.fi EXCEPT !.mode = @ \cup ModeRemote] ]
            ELSE st
       ELSE IF isRemote(st.fi)
       THEN [ err |-> "none", fi |-> readStubFile(loc, n, st.fi) ]
       ELSE st

\* remoteSyncLstat that stats the local path.
remoteSyncLstatLocal(loc, n) == osLstat(loc, n)

\* remote.SyncLstat(local, name): not-exist, always.
remoteSyncLstat(loc, n) == [ err |-> "notexist", fi |-> NoInfo ]

\* Entries of the local directory that no stub write made: a regular file,
\* a symlink whose target is a path, and a symlink whose target is base64
\* text of bytes that are no record.
ForeignNames == { <<"w">>, <<"l">>, <<"m">> }
TextTarget ==
    [ form |-> "text", name |-> <<".", ".", "/", "e">>, size |-> 0, mtime |-> 0, mode |-> {} ]
BytesTarget ==
    [ form |-> "bytes", name |-> <<"e", "e", "e", "e">>, size |-> 0, mtime |-> 0, mode |-> {} ]
ForeignEntry(n) ==
    CASE n = <<"w">> -> [ kind |-> "file", target |-> NoTarget ]
      [] n = <<"l">> -> [ kind |-> "symlink", target |-> TextTarget ]
      [] n = <<"m">> -> [ kind |-> "symlink", target |-> BytesTarget ]
LocalNames == SyncNames \cup ForeignNames

dirListCacheFile == <<".", "b", "k", "t", "l", "s", ".", "c", "a", "c", "h", "e">>

\* The orders in which dir.Readdir(-1) may give the entries: directory
\* order is not sorted; two orders are taken.
DirOrder == << dirListCacheFile, <<"x">>, <<"w">>, <<"y">>, <<"l">>, <<"m">> >>
Reverse(sq) == [ i \in 1..Len(sq) |-> sq[Len(sq) + 1 - i] ]
DirOrders == { DirOrder, Reverse(DirOrder) }

\* dir.Readdir(-1): the local record of every entry of the directory, the
\* marker file included, in directory order.
dirReaddir(loc, m, order) ==
    LET names == SelectSeq(order, LAMBDA n :
                    IF n = dirListCacheFile THEN m ELSE loc[n].kind # "none")
    IN [ i \in 1..Len(names) |->
           IF names[i] = dirListCacheFile
           THEN LocalInfo(dirListCacheFile, [ kind |-> "file", target |-> NoTarget ])
           ELSE LocalInfo(names[i], loc[names[i]]) ]

\* The loop of ReaddirAll without the test for the marker file's name.
RECURSIVE ReaddirAllLoopKeepsMarker(_, _, _)
ReaddirAllLoopKeepsMarker(loc, raw, offline) ==
    IF raw = <<>> THEN <<>>
    ELSE LET fi == Head(raw)
             rest == ReaddirAllLoopKeepsMarker(loc, Tail(raw), offline)
         IN IF isRemote(fi)
            THEN IF offline THEN rest
                 ELSE <<readStubFile(loc, fi.name, fi)>> \o rest
            ELSE <<fi>> \o rest

\* The loop of remote.ReaddirAll over what dir.Readdir gave: the marker
\* file is skipped; a symlink is skipped when offline and else replaced by
\* what readStubFile gives; every other entry is kept.
RECURSIVE ReaddirAllLoop(_, _, _)
ReaddirAllLoop(loc, raw, offline) ==
    IF raw = <<>> THEN <<>>
    ELSE LET fi == Head(raw)
             rest == ReaddirAllLoop(loc, Tail(raw), offline)
         IN IF fi.name = dirListCacheFile THEN rest
            ELSE IF isRemote(fi)
            THEN IF offline THEN rest
                 ELSE <<readStubFile(loc, fi.name, fi)>> \o rest
            ELSE <<fi>> \o rest

\* The last stat or listing call: entry and cached are the local entry and
\* the marker an Lstat found; raw is what dir.Readdir gave a ReaddirAll and
\* fis what ReaddirAll returned.
NoStat == [ op |-> "none", name |-> <<>>, err |-> "none", fi |-> NoInfo,
            entry |-> NoEntry, cached |-> FALSE, offline |-> FALSE,
            raw |-> <<>>, fis |-> <<>> ]

StatNames == LocalNames \cup {Dot}

\* remote.Lstat, the whole call.
Lstat ==
    /\ \E n \in StatNames :
         LET r == remoteLstat(local, marker, n)
         IN statted' = [ NoStat EXCEPT !.op = "Lstat", !.name = n, !.err = r.err,
                                       !.fi = r.fi,
                                       !.entry = IF n = Dot THEN NoEntry ELSE local[n],
                                       !.cached = marker ]
    /\ UNCHANGED <<bucket, syncVars, listVars, fileVars, openVars, dirVars,
                   mountVars, regionVars, uploadVars>>

\* remote.SyncLstat, the whole call.
SyncLstat ==
    /\ \E n \in StatNames :
         LET r == remoteSyncLstat(local, n)
         IN statted' = [ NoStat EXCEPT !.op = "SyncLstat", !.name = n, !.err = r.err,
                                       !.fi = r.fi ]
    /\ UNCHANGED <<bucket, syncVars, listVars, fileVars, openVars, dirVars,
                   mountVars, regionVars, uploadVars>>

\* remote.ReaddirAll(localDir, dir, offline), the whole call: the error of
\* dir.Readdir, returned with the entries read before it as they are, or
\* the entries the loop keeps.
ReaddirAll ==
    /\ \E order \in DirOrders, offline \in BOOLEAN, ok \in BOOLEAN :
         LET raw == dirReaddir(local, marker, order)
         IN \E k \in {0, Len(raw)} :
              /\ ok => k = Len(raw)
              /\ statted' =
                    IF ok
                    THEN [ NoStat EXCEPT !.op = "ReaddirAll", !.name = Dot,
                                         !.offline = offline, !.raw = raw,
                                         !.fis = ReaddirAllLoop(local, raw, offline) ]
                    ELSE [ NoStat EXCEPT !.op = "ReaddirAll", !.name = Dot,
                                         !.offline = offline, !.err = "readdir",
                                         !.raw = SubSeq(raw, 1, k),
                                         !.fis = SubSeq(raw, 1, k) ]
    /\ UNCHANGED <<bucket, syncVars, listVars, fileVars, openVars, dirVars,
                   mountVars, regionVars, uploadVars>>

\* The state in which stat calls begin to be made: as that of the sync
\* runs, with every SyncOpen call but two already returned with the error
\* of bucket.Open, and with the foreign entries in the local directory.
InitStat ==
    /\ bucket \in Buckets(SyncKeys)
    /\ local = [ n \in LocalNames |->
                   IF n \in ForeignNames THEN ForeignEntry(n) ELSE NoEntry ]
    /\ marker = FALSE
    /\ pass = [ p \in Procs |->
                  IF p <= 2 THEN IdlePass
                  ELSE SyncOpenError(IdlePass) ]
    /\ stubLog = {}
    /\ faults = 0
    /\ statted = NoStat
    /\ ListIdle /\ FileIdle /\ OpenIdle /\ DirIdle
    /\ MountIdle /\ RegionIdle /\ UploadIdle

NextStat == NextSync \/ Lstat \/ SyncLstat \/ ReaddirAll

SpecStat == InitStat /\ [][NextStat]_vars

\* What readStubFile returns now for the child n.
ReadBack(n) == readStubFile(local, n, LocalInfo(n, local[n]))

C20_StatLocalOnly ==
    /\ []( /\ statted.op = "SyncLstat" =>
                 statted.err = "notexist" /\ statted.fi = NoInfo
           /\ ( /\ statted.op = "Lstat"
                /\ statted.name # Dot
                /\ local[statted.name].kind = "none" ) =>
                   statted.err = "notexist" /\ statted.fi = NoInfo )
    /\ [][ statted' # statted => UNCHANGED <<bucket, syncVars>> ]_vars

\* Lstat of the child x, which the bucket holds and the local directory
\* does not: not-exist.
C20_Witness ==
    /\ statted.op = "Lstat"
    /\ statted.name = <<"x">>
    /\ statted.err = "notexist"
    /\ <<"x">> \in bucket
    /\ local[<<"x">>].kind = "none"

\* The record a link target of the form "record" serializes.
RecordOf(target) ==
    [ name |-> target.name, size |-> target.size, mtime |-> target.mtime,
      mode |-> target.mode, isDir |-> ModeDir \subseteq target.mode ]

\* C26: remote.Lstat of an existing local path returns: for the directory
\* while it has no marker, and for a child directory (which has none), the
\* local record with the remote mode bit added; for the directory with its
\* marker the local record as it is; for a symlink whose target holds a
\* record, that record; for a regular file the local record as it is. It
\* returns the not-exist error exactly when the path has no local entry.
C26_LstatClassifies ==
    statted.op = "Lstat" =>
        LET n == statted.name
            e == IF n = Dot THEN [ kind |-> "dir", target |-> NoTarget ] ELSE statted.entry
            lfi == LocalInfo(n, e)
        IN /\ (statted.err = "notexist") = (e.kind = "none")
           /\ statted.err \in {"none", "notexist"}
           /\ statted.err = "none" =>
                 /\ (n = Dot /\ ~statted.cached) =>
                       statted.fi = [lfi EXCEPT !.mode = ModeDir \cup ModeRemote]
                 /\ (n = Dot /\ statted.cached) =>
                       statted.fi = lfi /\ ~(ModeRemote \subseteq statted.fi.mode)
                 /\ (n # Dot /\ e.kind = "dir") =>
                       statted.fi = [lfi EXCEPT !.mode = ModeDir \cup ModeRemote]
                 /\ (e.kind = "symlink" /\ e.target.form = "record") =>
                       statted.fi = RecordOf(e.target)
                 /\ e.kind = "file" => statted.fi = lfi

\* Lstat of the directory after a pass wrote its marker: the plain record.
C26_Witness ==
    /\ statted.op = "Lstat"
    /\ statted.name = Dot
    /\ statted.err = "none"
    /\ statted.cached
    /\ statted.fi.mode = ModeDir
    /\ \E p \in Procs : pass[p].touchOK

\* The entries of a ReaddirAll's dir.Readdir that it must return: all but
\* the marker file, and when offline all but the marker file and the
\* symlinks.
KeptOf(raw, offline) ==
    SelectSeq(raw, LAMBDA fi :
        /\ fi.name # dirListCacheFile
        /\ offline => ~(ModeSymlink \subseteq fi.mode))

\* C27: a ReaddirAll that returned no error returned, in the order dir.Readdir
\* gave them, the entries other than the marker file, and when offline
\* other than the symlinks; every entry that is no symlink is the local
\* record unchanged; online, every symlink whose target holds a record is
\* returned as that record, and none is left out. A ReaddirAll changes
\* neither the bucket's use (no SyncOpen pass starts or advances) nor the
\* local directory.
C27_ReaddirAllLocalOnly ==
    /\ []( (statted.op = "ReaddirAll" /\ statted.err = "none") =>
             LET kept == KeptOf(statted.raw, statted.offline)
             IN /\ Len(statted.fis) = Len(kept)
                /\ \A i \in 1..Len(kept) :
                      IF ModeSymlink \subseteq kept[i].mode
                      THEN /\ ~statted.offline
                           /\ statted.fis[i] =
                                 IF local[kept[i].name].target.form = "record"
                                 THEN RecordOf(local[kept[i].name].target)
                                 ELSE kept[i]
                      ELSE statted.fis[i] = kept[i]
                /\ \A i \in 1..Len(statted.fis) :
                      /\ statted.fis[i].name # dirListCacheFile
                      /\ statted.offline => ~(ModeSymlink \subseteq statted.fis[i].mode) )
    /\ [][ (statted' # statted /\ statted'.op = "ReaddirAll") =>
              UNCHANGED <<bucket, syncVars>> ]_vars

\* An online ReaddirAll of the directory with its marker, a stub, a child
\* directory and the three foreign entries: five records for six entries.
C27_Witness ==
    /\ statted.op = "ReaddirAll"
    /\ statted.err = "none"
    /\ ~statted.offline
    /\ Len(statted.raw) = 6
    /\ Len(statted.fis) = 5
    /\ \E i \in 1..5 :
         /\ statted.fis[i].name = <<"x">>
         /\ statted.fis[i].size = ObjFsize(<<"x">>)
         /\ ModeRemote \subseteq statted.fis[i].mode

\* C28: readStubFile returns the record it was given whenever the path is
\* no symlink, or its target is not base64 text, or the decoded bytes are
\* no record; so Lstat of such an entry returns the local record and no
\* error, and an online ReaddirAll returns the local record of every such
\* entry.
C28_UndecodableStubFallsBack ==
    /\ \A n \in LocalNames :
         (local[n].kind # "symlink" \/ local[n].target.form # "record") =>
             ReadBack(n) = LocalInfo(n, local[n])
    /\ ( /\ statted.op = "Lstat"
         /\ statted.name # Dot
         /\ \/ statted.entry.kind = "file"
            \/ statted.entry.kind = "symlink" /\ statted.entry.target.form # "record" ) =>
            /\ statted.err = "none"
            /\ statted.fi = LocalInfo(statted.name, statted.entry)
    /\ (statted.op = "ReaddirAll" /\ statted.err = "none" /\ ~statted.offline) =>
            \A i \in 1..Len(statted.raw) :
               ( /\ statted.raw[i].name # dirListCacheFile
                 /\ \/ ~(ModeSymlink \subseteq statted.raw[i].mode)
                    \/ local[statted.raw[i].name].target.form # "record" ) =>
                   \E j \in 1..Len(statted.fis) : statted.fis[j] = statted.raw[i]

\* Lstat of the symlink whose target is base64 text of bytes that are no
\* record: the link's own record.
C28_Witness ==
    /\ statted.op = "Lstat"
    /\ statted.name = <<"m">>
    /\ statted.err = "none"
    /\ statted.entry.target.form = "bytes"
    /\ statted.fi.mode = ModeSymlink
    /\ statted.fi.size = 40 + Len(BytesTarget.name)

----------------------------------------------------------------------------
(* The cached package: NewFS, the file branch of remote.SyncOpen, and       *)
(* objFile.Close                                                           *)

FileNames == { <<"x">>, <<"w">> }

NoLocalFile == [ kind |-> "none", size |-> 0, mtime |-> 0 ]
NoObjFile == [ state |-> "none", opens |-> 0, download |-> "none", closeRet |-> "none",
               remoteCloses |-> 0, calls |-> <<>>, remoteRet |-> "none",
               mtimeSet |-> FALSE ]

\* objFile.Close that notifies the sink whatever DownloadFile returned.
objFileCloseCallsNotifyAlways(dl, notify) ==
    <<"DownloadFile">>
    \o (IF dl = "ok" THEN <<"Chtimes">> ELSE <<>>)
    \o (IF notify THEN <<"NotifyFile">> ELSE <<>>)
    \o <<"Close">>

\* objFile.Close: the calls it makes, in order, when DownloadFile returned
\* dl and the handle has (or has not) a notify sink.
objFileCloseCalls(dl, notify) ==
    IF dl = "ok"
    THEN <<"DownloadFile", "Chtimes">>
         \o (IF notify THEN <<"NotifyFile">> ELSE <<>>)
         \o <<"Close">>
    ELSE <<"DownloadFile", "Close">>

\* How many times a call occurs in a sequence of calls.
CountCalls(calls, c) == Cardinality({ i \in 1..Len(calls) : calls[i] = c })

\* NewRemote / NewFS: the remote adapter keeps the notify sink and the
\* cacheFile flag.
NewFS(notifyOrNil, cacheFile) == [ notify |-> notifyOrNil, cacheFile |-> cacheFile ]

\* remote.SyncOpen of a file name, the whole call: bucket.Open fails and the
\* error is returned, or the file it gives is wrapped in an objFile for the
\* local path.
SyncOpenFile(n) ==
    /\ handles[n].state # "open"
    /\ handles[n].opens < MaxOpens
    /\ \/ /\ n \in bucket
          /\ handles' = [handles EXCEPT ![n] =
                [ NoObjFile EXCEPT !.state = "open", !.opens = handles[n].opens + 1 ]]
       \/ /\ handles' = [handles EXCEPT ![n] =
                [ NoObjFile EXCEPT !.state = "failed", !.opens = handles[n].opens + 1 ]]
    /\ UNCHANGED <<bucket, fsys, files, notified, listVars, syncVars,
                   openVars, dirVars, statVars, mountVars, regionVars, uploadVars>>

\* objFile.Close: cached.DownloadFile into the local path; if it succeeds,
\* the remote modification time is restored on the local copy and the sink,
\* if there is one, is notified; then the remote file is closed and its
\* result returned.
objFileClose(n) ==
    /\ handles[n].state = "open"
    /\ \E dl \in {"ok", "fail"}, chtimes \in BOOLEAN, cl \in {"ok", "err"} :
         /\ dl = "fail" => chtimes
         /\ files' = IF dl = "ok"
                     THEN [files EXCEPT ![n] =
                            [ kind |-> "file", size |-> ObjFsize(n),
                              mtime |-> IF chtimes THEN fromPutTime(ObjPutTime(n)) ELSE 0 ]]
                     ELSE files
         /\ LET calls == objFileCloseCalls(dl, fsys.notify)
            IN /\ notified' = [notified EXCEPT ![n] = @ + CountCalls(calls, "NotifyFile")]
               /\ handles' = [handles EXCEPT ![n].state = "closed", ![n].download = dl,
                                ![n].calls = calls,
                                ![n].remoteRet = cl,
                                ![n].mtimeSet = dl = "ok" /\ chtimes,
                                ![n].closeRet = cl,
                                ![n].remoteCloses = @ + CountCalls(calls, "Close")]
    /\ UNCHANGED <<bucket, fsys, listVars, syncVars,
                   openVars, dirVars, statVars, mountVars, regionVars, uploadVars>>

InitFile ==
    /\ bucket \in SUBSET FileNames
    /\ \E notifyOrNil \in BOOLEAN, cacheFile \in BOOLEAN :
         fsys = NewFS(notifyOrNil, cacheFile)
    /\ files \in [ FileNames -> { NoLocalFile, [NoLocalFile EXCEPT !.kind = "symlink"] } ]
    /\ handles = [ n \in FileNames |-> NoObjFile ]
    /\ notified = [ n \in FileNames |-> 0 ]
    /\ ListIdle
    /\ DirIdle
    /\ StatIdle
    /\ MountIdle
    /\ RegionIdle /\ UploadIdle
    /\ SyncIdle
    /\ OpenIdle

NextFile ==
    \/ \E n \in FileNames : SyncOpenFile(n)
    \/ \E n \in FileNames : objFileClose(n)

SpecFile == InitFile /\ [][NextFile]_vars

\* C8: with cacheFile false, closing a file handle that SyncOpen returned
\* writes no content to the local path and notifies nobody.
C8_NoContentCachedWithoutFlag ==
    ~fsys.cacheFile =>
        \A n \in FileNames :
            handles[n].state = "closed" => files[n].kind # "file" /\ notified[n] = 0

\* C22: when a file handle of SyncOpen has been closed, the remote file was
\* closed exactly once, as the last call, whatever DownloadFile returned,
\* and Close returned the remote file's result; the sink was notified if
\* and only if DownloadFile succeeded and there is a sink, and then after
\* the os.Chtimes call; the local copy has the remote modification time
\* when that call succeeded (its result is not looked at).
C22_CloseAfterDownload ==
    \A n \in FileNames :
        handles[n].state = "closed" =>
            LET h == handles[n]
            IN /\ h.remoteCloses = 1
               /\ CountCalls(h.calls, "Close") = 1
               /\ h.calls[Len(h.calls)] = "Close"
               /\ h.closeRet = h.remoteRet
               /\ CountCalls(h.calls, "NotifyFile") =
                     (IF h.download = "ok" /\ fsys.notify THEN 1 ELSE 0)
               /\ \A i \in 1..Len(h.calls) :
                     h.calls[i] = "NotifyFile" => i > 1 /\ h.calls[i - 1] = "Chtimes"
               /\ h.download = "ok" =>
                     /\ files[n].kind = "file"
                     /\ h.mtimeSet => files[n].mtime = fromPutTime(ObjPutTime(n))

\* A close whose download failed and whose remote close returned an error,
\* and a close of another handle that notified the sink.
C22_Witness ==
    \E n, m \in FileNames :
        /\ handles[n].state = "closed" /\ handles[n].download = "fail"
        /\ handles[n].closeRet = "err" /\ notified[n] = 0
        /\ handles[m].state = "closed" /\ handles[m].download = "ok"
        /\ notified[m] >= 1 /\ handles[m].mtimeSet

\* C22 as written: whenever the sink was notified, the local copy has the
\* remote modification time.
C22_AsClaimed ==
    \A n \in FileNames :
        (handles[n].state = "closed" /\ CountCalls(handles[n].calls, "NotifyFile") = 1) =>
            files[n].mtime = fromPutTime(ObjPutTime(n))

----------------------------------------------------------------------------
(* The kodo package's Bucket.ReaddirContext called on its own, and          *)
(* Bucket.WalkContext                                                      *)

\* The keys a bucket of these runs may hold, and the directories asked for.
DirKeys ==
    { <<"a", "/">>, <<"a", "/", "x">>, <<"a", "/", "y">>, <<"a", "/", "y", "/", "z">>,
      <<"a", "/", "y", "/", "w">>, <<"a", "/", "w", "/", "z">>, <<"b">> }
DirNames == { Slash, <<"/", "a">>, <<"/", "a", "/">>, <<"/", "a", "/", "y">> }

NoDirRead == [ dir |-> <<>>, res |-> "none", fis |-> <<>>, pages |-> 0 ]
NoWalk == [ dir |-> <<>>, res |-> "none", visits |-> <<>>, pages |-> 0, stopAt |-> {} ]

\* Bucket.ReaddirContext(dir), the whole call.
Readdir ==
    /\ \E dir \in DirNames :
         \E r \in ReaddirContext(bucket, dir) :
            dirRead' = [ dir |-> dir, res |-> r.res, fis |-> r.fis, pages |-> r.pages ]
    /\ UNCHANGED <<bucket, walked, listVars, syncVars, fileVars, openVars, statVars, mountVars, regionVars, uploadVars>>

InitDir ==
    /\ bucket \in Buckets(DirKeys)
    /\ dirRead = NoDirRead
    /\ walked = NoWalk
    /\ ListIdle /\ SyncIdle /\ FileIdle /\ OpenIdle /\ StatIdle
    /\ MountIdle /\ RegionIdle /\ UploadIdle

NextReaddir == Readdir

SpecReaddir == InitDir /\ [][NextReaddir]_vars

\* C40: a ReaddirContext call that succeeds returns no record with an empty
\* name and no two records with the same name, for every bucket, with an
\* object whose key is the directory prefix itself and with an object and a
\* sub-prefix of one name as well.
C40_NamesNonEmptyAndDistinct ==
    dirRead.res = "ok" =>
        LET fis == dirRead.fis
        IN /\ \A i \in 1..Len(fis) : fis[i].name # <<>>
           /\ \A i, j \in 1..Len(fis) : fis[i].name = fis[j].name => i = j

\* The limit WalkContext passes with each request.
walkLimit == 1000

\* C12: a ReaddirContext call that succeeds returns one record for each
\* immediate child of dir and no other: for an object directly under dir a
\* file record of the key's name after the dir prefix, with the object's
\* size and modification time; for all keys under one sub-prefix together
\* one directory record of zero size with the directory mode bit; and this
\* for every bucket and every paging.
C12_OneRecordPerChild ==
    dirRead.res = "ok" =>
        LET d == DirPrefix(dirRead.dir)
            fis == dirRead.fis
        IN /\ { [name |-> fis[i].name, isDir |-> fis[i].isDir] : i \in 1..Len(fis) }
                 = Children(bucket, d)
           /\ Len(fis) = Cardinality(Children(bucket, d))
           /\ \A i \in 1..Len(fis) :
                 IF fis[i].isDir
                 THEN /\ fis[i].size = 0
                      /\ ModeDir \subseteq ModeOf(fis[i])
                      /\ \E k \in bucket : HasPrefix(k, d \o fis[i].name \o Slash)
                 ELSE /\ d \o fis[i].name \in bucket
                      /\ fis[i].size = ObjFsize(d \o fis[i].name)
                      /\ fis[i].mtime = fromPutTime(ObjPutTime(d \o fis[i].name))
                      /\ ModeDir \cap ModeOf(fis[i]) = {}

\* "/a" read over two pages or more, its children one file and one
\* directory that holds two keys.
C12_Witness ==
    /\ dirRead.dir = <<"/", "a">>
    /\ dirRead.res = "ok"
    /\ dirRead.pages >= 2
    /\ bucket = { <<"a", "/", "x">>, <<"a", "/", "y", "/", "z">>, <<"a", "/", "y", "/", "w">> }
    /\ Len(dirRead.fis) = 2

\* C13: the records of a ReaddirContext call that succeeds are in ascending
\* byte order of their names.
C13_RecordsInNameOrder ==
    dirRead.res = "ok" =>
        \A i, j \in 1..Len(dirRead.fis) :
            i < j => LexLeq(dirRead.fis[i].name, dirRead.fis[j].name)

\* The prefix WalkContext lists for dir.
WalkDir(dir) ==
    IF dir = Slash THEN <<>>
    ELSE LET d == TrimPrefix(dir, Slash)
         IN IF HasSuffix(d, Slash) THEN d ELSE d \o Slash

\* WalkVisits with the key itself as the path.
WalkVisitsBarePath(d, ret, stopAt, page) ==
    [ i \in 1..Len(ret.Items) |->
        LET key == ret.Items[i].Key
        IN [ path |-> key,
             info |-> NewFileInfo(SliceFrom(key, Len(d)), ret.Items[i].Fsize, 0),
             err |-> "nil", page |-> page,
             ret |-> IF key \in stopAt THEN "stop" ELSE "nil" ] ]

\* The calls of the visitor WalkContext makes for one answer of the store,
\* one per item: fn("/"+key, NewFileInfo(name, size), nil). What the visitor
\* returns (an error for the keys in stopAt, to stop the walk) is recorded;
\* WalkContext does not read it.
WalkVisits(d, ret, stopAt, page) ==
    [ i \in 1..Len(ret.Items) |->
        LET key == ret.Items[i].Key
        IN [ path |-> Slash \o key,
             info |-> NewFileInfo(SliceFrom(key, Len(d)), ret.Items[i].Fsize, 0),
             err |-> "nil", page |-> page,
             ret |-> IF key \in stopAt THEN "stop" ELSE "nil" ] ]

\* The page loop of WalkContext from the marker mark with the visits made,
\* making at most k page requests (no delimiter is passed): every way it can
\* end.
RECURSIVE WalkLoop(_, _, _, _, _, _)
WalkLoop(bkt, d, mark, visits, stopAt, k) ==
    IF k = 0 THEN {}
    ELSE LET page == MaxFetch - k + 1
         IN {[ res |-> "err", visits |-> visits, pages |-> page ]}
            \cup UNION {
               LET ret == ListFilesWithContext(bkt, d, <<>>, walkLimit, mark, n)
                   visits1 == visits \o WalkVisits(d, ret, stopAt, page)
               IN IF ~ret.hasNext
                  THEN {[ res |-> "ok", visits |-> visits1, pages |-> page ]}
                  ELSE WalkLoop(bkt, d, ret.Marker, visits1, stopAt, k - 1) :
               n \in MayReturn(bkt, d, <<>>, walkLimit, mark) }

\* Bucket.WalkContext(dir, fn), the whole call, with a visitor that asks to
\* stop at the keys in stopAt. A call keeps nothing for the next one, so
\* each run makes one.
WalkContext ==
    /\ walked.res = "none"
    /\ \E dir \in DirNames :
         \E stopAt \in SUBSET { k \in bucket : HasPrefix(k, WalkDir(dir)) } :
            \E r \in WalkLoop(bucket, WalkDir(dir), <<>>, <<>>, stopAt, MaxFetch) :
               walked' = [ dir |-> dir, res |-> r.res, visits |-> r.visits,
                           pages |-> r.pages, stopAt |-> stopAt ]
    /\ UNCHANGED <<bucket, dirRead, listVars, syncVars, fileVars, openVars, statVars, mountVars, regionVars, uploadVars>>

NextWalk == WalkContext

SpecWalk == InitDir /\ [][NextWalk]_vars

\* C17: when the visitor returned an error for an entry, to stop the walk,
\* that entry is the last one visited and no page was requested after the
\* page it came in.
C17_StopsAtVisitorRequest ==
    \A i \in 1..Len(walked.visits) :
        walked.visits[i].ret = "stop" =>
            /\ i = Len(walked.visits)
            /\ walked.pages = walked.visits[i].page

\* The keys under the prefix of the walk, in ascending byte order.
WalkKeys == SortKeys({ k \in bucket : HasPrefix(k, WalkDir(walked.dir)) })

\* C18: a walk that ends without error has called the visitor once for each
\* key under the prefix, grouped by no delimiter, in ascending byte order of
\* the keys over all pages, with the path "/"+key and a nil error; a walk
\* that ends with the error of a page request has called it so for the keys
\* of the earlier pages only, a leading part of that order.
C18_WalkVisitsEveryKey ==
    walked.res # "none" =>
        LET vs == walked.visits
        IN /\ Len(vs) <= Len(WalkKeys)
           /\ \A i \in 1..Len(vs) :
                 /\ vs[i].path = Slash \o WalkKeys[i]
                 /\ vs[i].err = "nil"
                 /\ vs[i].page < walked.pages \/ walked.res = "ok"
           /\ walked.res = "ok" => Len(vs) = Len(WalkKeys)

\* A walk of "/a" over two pages or more that visited three keys, one of
\* them two levels down.
C18_Witness ==
    /\ walked.dir = <<"/", "a">>
    /\ walked.res = "ok"
    /\ walked.pages >= 2
    /\ Len(walked.visits) = 3
    /\ \E i \in 1..3 : IndexOf(walked.visits[i].info.name, "/") >= 0

----------------------------------------------------------------------------
(* kodoutil.Parse, kodofs.Register and kodofs.Open                          *)

\* The most Register calls made.
MaxRegisters == 2

Scheme == <<"k", "o", "d", "o">>
SchemePrefix == Scheme \o <<":">>

\* strings.TrimSuffix
TrimSuffix(s, x) == IF HasSuffix(s, x) THEN SubSeq(s, 1, Len(s) - Len(x)) ELSE s

\* The 1-based place of the last "?" of s, or 0.
LastQuestion(s) ==
    IF \E i \in 1..Len(s) : s[i] = "?"
    THEN CHOOSE i \in 1..Len(s) : s[i] = "?" /\ \A j \in (i + 1)..Len(s) : s[j] # "?"
    ELSE 0

\* A split of the url at its last "?".
SplitN2Last(s) ==
    IF LastQuestion(s) = 0 THEN <<s>>
    ELSE <<SubSeq(s, 1, LastQuestion(s) - 1), SliceFrom(s, LastQuestion(s))>>

\* strings.SplitN(s, "?", 2): s itself if it has no "?", else the text
\* before the first "?" and all the text after it.
SplitN2(s) ==
    IF IndexOf(s, "?") = -1 THEN <<s>>
    ELSE <<SubSeq(s, 1, IndexOf(s, "?")), SliceFrom(s, IndexOf(s, "?") + 1)>>

\* The tokens of these runs. protected.Decode gives the parameters of the
\* first three and fails on the others.
Tokens == { <<"p">>, <<"q">>, <<"r">>, <<"z">>, <<"d", "?", "p">> }
Decodable(tok) == tok \in { <<"p">>, <<"q">>, <<"r">> }
TokenParams(tok) ==
    CASE tok = <<"p">> -> [ ak |-> <<"a">>, sk |-> <<"s">> ]
      [] tok = <<"q">> -> [ ak |-> <<"a">>, sk |-> <<>> ]
      [] tok = <<"r">> -> [ ak |-> <<>>, sk |-> <<"s">> ]
      [] OTHER -> [ ak |-> <<>>, sk |-> <<>> ]

\* The errors protected.Decode may return for a token it cannot decode: the
\* decoder is a library, and Parse returns whatever error it gives.
DecodeErrors == { "ErrPermission", "ErrDecode" }

\* protected.Decode(token): the parameters, or one of the decoder's errors.
Decode(tok) ==
    IF Decodable(tok)
    THEN { [ err |-> "nil", params |-> TokenParams(tok) ] }
    ELSE { [ err |-> e, params |-> TokenParams(<<>>) ] : e \in DecodeErrors }

\* The mount urls of these runs.
MountBuckets == { <<>>, <<"b">>, <<"d">> }
MountURLs ==
    { pre \o b \o rest :
        pre \in { <<>>, SchemePrefix },
        b \in MountBuckets,
        rest \in { <<>> } \cup { <<"?">> \o tok : tok \in Tokens } }

\* kodoutil.Parse(url): every result it may give. decodeErr is what
\* protected.Decode returned, "none" when it was not called.
Parse(url) ==
    LET parts == SplitN2(TrimPrefix(url, SchemePrefix))
    IN IF Len(parts) # 2
       THEN { [ bucket |-> <<>>, ak |-> <<>>, sk |-> <<>>, err |-> "ErrPermission",
                decodeErr |-> "none" ] }
       ELSE { IF d.err # "nil"
              THEN [ bucket |-> <<>>, ak |-> <<>>, sk |-> <<>>, err |-> d.err,
                     decodeErr |-> d.err ]
              ELSE IF d.params.ak = <<>> \/ d.params.sk = <<>>
              THEN [ bucket |-> <<>>, ak |-> d.params.ak, sk |-> d.params.sk,
                     err |-> "ErrPermission", decodeErr |-> "nil" ]
              ELSE [ bucket |-> parts[1], ak |-> d.params.ak, sk |-> d.params.sk,
                     err |-> "nil", decodeErr |-> "nil" ]
              : d \in Decode(parts[2]) }

NoParse == [ url |-> <<>>, called |-> FALSE, bucket |-> <<>>, ak |-> <<>>, sk |-> <<>>,
             err |-> "none", decodeErr |-> "none" ]

\* A call of kodoutil.Parse, in a run that makes no Register or Open call.
ParseURL ==
    /\ registered = <<>> /\ ~mounted.called
    /\ \E url \in MountURLs :
         \E r \in Parse(url) :
            parsed' = [ url |-> url, called |-> TRUE, bucket |-> r.bucket, ak |-> r.ak,
                        sk |-> r.sk, err |-> r.err, decodeErr |-> r.decodeErr ]
    /\ UNCHANGED <<bucket, hosts, registered, mounted, listVars, syncVars, fileVars,
                   openVars, dirVars, statVars, regionVars, uploadVars>>

\* The hosts registered, and the argument lists of Register.
NoHost == <<"-">>
RegisterArgs ==
    { <<>>,
      << <<"b">> >>,
      << <<"b">>, <<"h">> >>,
      << <<"b">>, <<"i">> >>,
      << <<"d">>, <<"h", "/">> >>,
      << <<>>, <<"h">> >>,
      << <<"b">>, <<"h">>, <<"d">> >>,
      << <<"b">>, <<"h">>, <<"b">>, <<"i">> >>,
      << <<"d">>, <<"i">>, <<"b">>, <<"h">> >> }

\* A Register loop that does not replace the host a bucket already has.
RECURSIVE RegisterLoopKeepFirst(_, _, _)
RegisterLoopKeepFirst(h, args, i) ==
    IF i >= Len(args) THEN [ hosts |-> h, panic |-> FALSE ]
    ELSE IF i + 1 >= Len(args) THEN [ hosts |-> h, panic |-> TRUE ]
    ELSE RegisterLoopKeepFirst(
            IF h[args[i + 1]] = NoHost THEN [h EXCEPT ![args[i + 1]] = args[i + 2]] ELSE h,
            args, i + 2)

\* The loop of Register from the index i (counted from 0): each pair sets
\* hosts[bucket]; an argument list of odd length makes bucketHostPairs[i+1]
\* an index out of range, which panics after the pairs before it were set.
RECURSIVE RegisterLoop(_, _, _)
RegisterLoop(h, args, i) ==
    IF i >= Len(args) THEN [ hosts |-> h, panic |-> FALSE ]
    ELSE IF i + 1 >= Len(args) THEN [ hosts |-> h, panic |-> TRUE ]
    ELSE RegisterLoop([h EXCEPT ![args[i + 1]] = args[i + 2]], args, i + 2)

\* A call of kodofs.Register.
Register ==
    /\ ~parsed.called
    /\ Len(registered) < MaxRegisters
    /\ \E args \in RegisterArgs :
         LET r == RegisterLoop(hosts, args, 0)
         IN /\ hosts' = r.hosts
            /\ registered' = Append(registered, [ args |-> args, panic |-> r.panic ])
    /\ UNCHANGED <<bucket, parsed, mounted, listVars, syncVars, fileVars,
                   openVars, dirVars, statVars, regionVars, uploadVars>>

\* kodofs.New / Credentials.NewBucket: the Bucket made for a mount.
NoBucket == [ made |-> FALSE, ak |-> <<>>, sk |-> <<>>, bucket |-> <<>>, host |-> <<>> ]
New(ak, sk, bkt, host) ==
    [ made |-> TRUE, ak |-> ak, sk |-> sk, bucket |-> bkt, host |-> TrimSuffix(host, <<"/">>) ]

NoMount == [ url |-> <<>>, called |-> FALSE, err |-> "none", parseErr |-> "none",
             parsedBucket |-> <<>>, consulted |-> FALSE, fs |-> NoBucket,
             after |-> <<>> ]

\* kodofs.Open(ctx, url), the whole call. after is the Register calls made
\* before it.
OpenURL ==
    /\ ~parsed.called
    /\ \E url \in MountURLs :
         \E r \in Parse(url) :
            mounted' =
               IF r.err # "nil"
               THEN [ NoMount EXCEPT !.url = url, !.called = TRUE, !.after = registered,
                                     !.err = r.err,
                                     !.parseErr = r.err ]
               ELSE IF hosts[r.bucket] = NoHost
               THEN [ NoMount EXCEPT !.url = url, !.called = TRUE, !.after = registered,
                                     !.err = "HostNotFound",
                                     !.parseErr = "nil", !.parsedBucket = r.bucket,
                                     !.consulted = TRUE ]
               ELSE [ NoMount EXCEPT !.url = url, !.called = TRUE, !.after = registered,
                                     !.err = "nil",
                                     !.parseErr = "nil", !.parsedBucket = r.bucket,
                                     !.consulted = TRUE,
                                     !.fs = New(r.ak, r.sk, r.bucket, hosts[r.bucket]) ]
    /\ UNCHANGED <<bucket, hosts, registered, parsed, listVars, syncVars, fileVars,
                   openVars, dirVars, statVars, regionVars, uploadVars>>

InitMount ==
    /\ bucket = {}
    /\ hosts = [ b \in MountBuckets |-> NoHost ]
    /\ registered = <<>>
    /\ parsed = NoParse
    /\ mounted = NoMount
    /\ ListIdle /\ SyncIdle /\ FileIdle /\ OpenIdle /\ DirIdle /\ StatIdle
    /\ RegionIdle /\ UploadIdle

NextMount ==
    \/ ParseURL
    \/ Register
    \/ OpenURL

SpecMount == InitMount /\ [][NextMount]_vars

\* The url without the scheme prefix, the text before its first "?" and the
\* text after it.
Trimmed(url) == TrimPrefix(url, SchemePrefix)
HasToken(url) == \E i \in 1..Len(Trimmed(url)) : Trimmed(url)[i] = "?"
FirstQuestion(url) ==
    CHOOSE i \in 1..Len(Trimmed(url)) :
        Trimmed(url)[i] = "?" /\ \A j \in 1..(i - 1) : Trimmed(url)[j] # "?"
BucketText(url) == SubSeq(Trimmed(url), 1, FirstQuestion(url) - 1)
TokenText(url) == SubSeq(Trimmed(url), FirstQuestion(url) + 1, Len(Trimmed(url)))

RECURSIVE PairsOf(_, _)
PairsOf(args, i) ==
    IF i + 1 > Len(args) THEN <<>>
    ELSE <<[ bucket |-> args[i], host |-> args[i + 1] ]>> \o PairsOf(args, i + 2)
RECURSIVE PairsSet(_)
PairsSet(regs) ==
    IF regs = <<>> THEN <<>>
    ELSE PairsOf(Head(regs).args, 1) \o PairsSet(Tail(regs))
IsRegistered(regs, b) == \E i \in 1..Len(PairsSet(regs)) : PairsSet(regs)[i].bucket = b
LatestHost(regs, b) ==
    LET ps == PairsSet(regs)
        i == CHOOSE k \in 1..Len(ps) :
                ps[k].bucket = b /\ \A j \in (k + 1)..Len(ps) : ps[j].bucket # b
    IN ps[i].host

\* C24: kodofs.Open returns Parse's error without looking at the registry
\* and without making a Bucket; for a url that parses it fails when no
\* Register call has named the bucket, and otherwise makes the Bucket with
\* the keys of the token and the host of the latest registration of the
\* bucket (less a trailing "/").
C24_MountNeedsRegistration ==
    mounted.called =>
        /\ mounted.parseErr # "nil" =>
              /\ mounted.err = mounted.parseErr
              /\ ~mounted.consulted
              /\ ~mounted.fs.made
        /\ (mounted.parseErr = "nil" /\ ~IsRegistered(mounted.after, BucketText(mounted.url))) =>
              /\ mounted.err = "HostNotFound"
              /\ ~mounted.fs.made
        /\ (mounted.parseErr = "nil" /\ IsRegistered(mounted.after, BucketText(mounted.url))) =>
              /\ mounted.err = "nil"
              /\ mounted.fs.made
              /\ mounted.fs.bucket = BucketText(mounted.url)
              /\ mounted.fs.host =
                    TrimSuffix(LatestHost(mounted.after, BucketText(mounted.url)), <<"/">>)
              /\ mounted.fs.ak = TokenParams(TokenText(mounted.url)).ak
              /\ mounted.fs.sk = TokenParams(TokenText(mounted.url)).sk
        /\ (mounted.parseErr # "nil") =
              (~HasToken(mounted.url)
               \/ ~Decodable(TokenText(mounted.url))
               \/ TokenParams(TokenText(mounted.url)).ak = <<>>
               \/ TokenParams(TokenText(mounted.url)).sk = <<>>)

\* A bucket registered twice with different hosts has been mounted.
C24_Witness ==
    /\ mounted.called /\ mounted.err = "nil" /\ mounted.fs.made
    /\ \E i, j \in 1..Len(PairsSet(mounted.after)) :
         /\ i < j
         /\ PairsSet(mounted.after)[i].bucket = mounted.fs.bucket
         /\ PairsSet(mounted.after)[j].bucket = mounted.fs.bucket
         /\ PairsSet(mounted.after)[i].host # PairsSet(mounted.after)[j].host
         /\ mounted.fs.host = PairsSet(mounted.after)[j].host

----------------------------------------------------------------------------
(* getRegionByV2: the region cache and the single-flight group              *)

\* The callers of getRegionByV2, one call each, and the most queries started.
MaxCallers == 3
MaxQueries == 3

RegionAks == { <<"a">> }
RegionBuckets == { <<"b">>, <<"d">> }

\* regionID := fmt.Sprintf("%s:%s", ak, bucket)
regionID(ak, bkt) == ak \o <<":">> \o bkt
RegionIDs == { regionID(ak, bkt) : ak \in RegionAks, bkt \in RegionBuckets }

Callers == 1..MaxCallers

\* A cache entry: the region (named by the number of the query that got it,
\* 0 for one loaded from the cache file) and whether time.Now() is before
\* its deadline.
NoRegion == [ has |-> FALSE, region |-> 0, fresh |-> FALSE ]
LoadedRegion(fresh) == [ has |-> TRUE, region |-> 0, fresh |-> fresh ]

NoCall == [ pc |-> "idle", key |-> <<>>, arrivedIn |-> 0, joined |-> 0, started |-> 0,
            res |-> "none", region |-> 0, err |-> "none", via |-> "none" ]

\* A group whose Do starts the function whether or not a call is in flight.
GroupDoAlwaysStarts(inFlight) == "start"

\* singleflight.Group.Do for a key: the caller joins the call in flight for
\* the key if there is one, and starts the function otherwise.
GroupDo(inFlight) == IF inFlight # 0 THEN "join" ELSE "start"

\* getRegionByV2 up to the cache check: the cache is loaded, the key is made,
\* and a cached region whose deadline has not passed is returned.
RegionCall(p) ==
    /\ callers[p].pc = "idle"
    /\ \E ak \in RegionAks, bkt \in RegionBuckets :
         LET k == regionID(ak, bkt)
             v == regionV2Cache[k]
         IN callers' = [callers EXCEPT ![p] =
               IF v.has /\ v.fresh
               THEN [ NoCall EXCEPT !.pc = "done", !.key = k, !.arrivedIn = flights[k],
                                    !.res = "ok", !.region = v.region, !.err = "nil",
                                    !.via = "cache" ]
               ELSE [ NoCall EXCEPT !.pc = "atDo", !.key = k, !.arrivedIn = flights[k] ]]
    /\ UNCHANGED <<bucket, regionV2Cache, flights, nQueries, listVars, syncVars, fileVars,
                   openVars, dirVars, statVars, mountVars, uploadVars>>

\* The call of ucQueryV2Group.Do(regionID, fn): the caller waits for the
\* call in flight, or fn starts on its behalf.
RegionDo(p) ==
    /\ callers[p].pc = "atDo"
    /\ LET k == callers[p].key
       IN IF GroupDo(flights[k]) = "join"
          THEN /\ callers' = [callers EXCEPT ![p].pc = "waiting", ![p].joined = flights[k]]
               /\ UNCHANGED <<flights, nQueries>>
          ELSE /\ nQueries < MaxQueries
               /\ nQueries' = nQueries + 1
               /\ flights' = [flights EXCEPT ![k] = nQueries + 1]
               /\ callers' = [callers EXCEPT ![p].pc = "querying",
                                             ![p].started = nQueries + 1]
    /\ UNCHANGED <<bucket, regionV2Cache, listVars, syncVars, fileVars,
                   openVars, dirVars, statVars, mountVars, uploadVars>>

\* fn: the query to the uc host and what follows it. A failed request or a
\* reply without a host gives an error; otherwise the region is stored in
\* the cache with the deadline now + TTL (already passed if TTL is 0).
RegionQuery(p) ==
    /\ callers[p].pc = "querying"
    /\ \E outcome \in {"ok", "okNoTTL", "err"} :
         /\ callers' = [callers EXCEPT ![p].pc = "stored",
                          ![p].res = IF outcome = "err" THEN "err" ELSE "ok",
                          ![p].region = IF outcome = "err" THEN 0 ELSE callers[p].started,
                          ![p].err = IF outcome = "err" THEN "queryError" ELSE "nil"]
         /\ regionV2Cache' =
               IF outcome = "err" THEN regionV2Cache
               ELSE [regionV2Cache EXCEPT ![callers[p].key] =
                       [ has |-> TRUE, region |-> callers[p].started,
                         fresh |-> outcome = "ok" ]]
    /\ UNCHANGED <<bucket, flights, nQueries, listVars, syncVars, fileVars,
                   openVars, dirVars, statVars, mountVars, uploadVars>>

\* fn returns: the group hands its result to the caller that started it and
\* to every caller that joined, and forgets the key.
RegionReturn(p) ==
    /\ callers[p].pc = "stored"
    /\ callers' = [ q \in Callers |->
          IF q = p THEN [callers[q] EXCEPT !.pc = "done", !.via = "query"]
          ELSE IF callers[q].pc = "waiting" /\ callers[q].joined = callers[p].started
          THEN [callers[q] EXCEPT !.pc = "done", !.via = "shared",
                                  !.res = callers[p].res, !.region = callers[p].region,
                                  !.err = callers[p].err]
          ELSE callers[q] ]
    /\ flights' = [flights EXCEPT ![callers[p].key] = 0]
    /\ UNCHANGED <<bucket, regionV2Cache, nQueries, listVars, syncVars, fileVars,
                   openVars, dirVars, statVars, mountVars, uploadVars>>

\* Time passes the deadline of a cached region.
RegionExpire ==
    /\ \E k \in RegionIDs :
         /\ regionV2Cache[k].has /\ regionV2Cache[k].fresh
         /\ regionV2Cache' = [regionV2Cache EXCEPT ![k].fresh = FALSE]
    /\ UNCHANGED <<bucket, flights, callers, nQueries, listVars, syncVars, fileVars,
                   openVars, dirVars, statVars, mountVars, uploadVars>>

\* The cache as loadRegionV2Cache leaves it: per key nothing, or a region of
\* the cache file, its deadline passed or not.
InitRegion ==
    /\ bucket = {}
    /\ regionV2Cache \in [ RegionIDs -> { NoRegion, LoadedRegion(TRUE), LoadedRegion(FALSE) } ]
    /\ flights = [ k \in RegionIDs |-> 0 ]
    /\ callers = [ p \in Callers |-> NoCall ]
    /\ nQueries = 0
    /\ ListIdle /\ SyncIdle /\ FileIdle /\ OpenIdle /\ DirIdle /\ StatIdle
    /\ MountIdle /\ UploadIdle

NextRegion ==
    \/ \E p \in Callers : RegionCall(p)
    \/ \E p \in Callers : RegionDo(p)
    \/ \E p \in Callers : RegionQuery(p)
    \/ \E p \in Callers : RegionReturn(p)
    \/ RegionExpire

SpecRegion == InitRegion /\ [][NextRegion]_vars

\* The callers whose query for the key k is in flight.
InFlight(k) == { p \in Callers : callers[p].key = k /\ callers[p].pc \in {"querying", "stored"} }

\* C25: for each key at most one query is in flight at any time; a caller
\* that reaches the group while a query for its key is in flight starts no
\* query, waits while that query is in flight and gets its result, region
\* or error; and a caller that starts a query does so when none is in
\* flight for its key, which may be after the one that was in flight when it
\* entered getRegionByV2 has returned.
C25_SingleFlightPerKey ==
    /\ \A k \in RegionIDs :
         /\ Cardinality(InFlight(k)) <= 1
         /\ (flights[k] # 0) = (InFlight(k) # {})
         /\ \A p \in InFlight(k) : callers[p].started = flights[k]
    /\ \A p \in Callers :
         /\ callers[p].joined # 0 => callers[p].started = 0
         /\ callers[p].pc = "waiting" =>
               /\ flights[callers[p].key] = callers[p].joined
               /\ callers[p].joined >= callers[p].arrivedIn
         /\ (callers[p].joined # 0 /\ callers[p].pc = "done") =>
               \E q \in Callers :
                  /\ callers[q].started = callers[p].joined
                  /\ callers[q].key = callers[p].key
                  /\ callers[q].pc = "done"
                  /\ callers[q].res = callers[p].res
                  /\ callers[q].region = callers[p].region
                  /\ callers[q].err = callers[p].err
         /\ (callers[p].started # 0 /\ callers[p].arrivedIn # 0) =>
               callers[p].started > callers[p].arrivedIn

\* Two callers have joined one query, which failed, and got its error.
C25_Witness ==
    \E p, q, r \in Callers :
        /\ p # q /\ p # r /\ q # r
        /\ callers[r].started # 0 /\ callers[r].pc = "done" /\ callers[r].res = "err"
        /\ callers[p].joined = callers[r].started /\ callers[p].pc = "done"
        /\ callers[q].joined = callers[r].started /\ callers[q].pc = "done"
        /\ callers[p].err = "queryError" /\ callers[q].err = "queryError"

\* C25 as written: a caller that entered getRegionByV2 while a query for
\* its key was in flight has the result of that query and started none.
C25_AsClaimed ==
    \A p \in Callers :
        (callers[p].arrivedIn # 0 /\ callers[p].pc = "done") =>
            /\ callers[p].started = 0
            /\ callers[p].res = "ok" => callers[p].region = callers[p].arrivedIn
            /\ callers[p].joined # 0 => callers[p].joined = callers[p].arrivedIn

----------------------------------------------------------------------------
(* kodo package: PutExtra.init and doUploadAction, the attempts of an upload *)

MaxUpHosts == 2
MaxTryTimes == 2

defaultTryTimes == 3

\* The hosts a provider may hold, and the TryTimes a caller may set.
UpHosts == 1..MaxUpHosts
TryTimesGiven == 0..MaxTryTimes

\* PutExtra.init: the TryTimes in force.
PutExtraInit(tryTimes) == IF tryTimes = 0 THEN defaultTryTimes ELSE tryTimes

\* hostprovider.HostProvider.Provider: one of the hosts that are not frozen,
\* or an error when there is none.
Provider(hs, frozen) ==
    IF hs \ frozen = {}
    THEN {[ err |-> TRUE, host |-> 0 ]}
    ELSE {[ err |-> FALSE, host |-> h ] : h \in hs \ frozen }

\* hostprovider.HostProvider.Freeze: the host is not supplied from now on.
Freeze(frozen, host) == frozen \cup {host}

\* What action(host) may return: nil, an error that clientv2.IsErrorRetryable
\* takes for retryable, or another error.
ActionOutcomes == {"nil", "retryable", "fatal"}

\* shouldUploadRetryWithOtherHost that takes every error for retryable.
shouldUploadRetryAlways(err) == TRUE

shouldUploadRetryWithOtherHost(err) == err = "retryable"

NoUpload ==
    [ pc |-> "idle", TryTimes |-> 0, retryMax |-> 0, hosts |-> {}, frozen |-> {},
      host |-> 0, i |-> 0, err |-> "none", ret |-> "none", log |-> <<>> ]

UpEvent(ev, host, res) == [ ev |-> ev, host |-> host, res |-> res ]

\* The form upload calls doUploadAction(hostProvider, extra.TryTimes,
\* extra.HostFreezeDuration, action) after extra.init().
UploadStart ==
    /\ upload.pc = "idle"
    /\ \E t \in TryTimesGiven, hs \in SUBSET UpHosts :
         upload' = [ NoUpload EXCEPT !.pc = "provider", !.TryTimes = PutExtraInit(t),
                                     !.retryMax = PutExtraInit(t), !.hosts = hs ]
    /\ UNCHANGED <<bucket, progress, listVars, syncVars, fileVars, openVars, dirVars,
                   statVars, mountVars, regionVars>>

\* doUploadAction, the head of the outer loop: hostProvider.Provider().
UploadProvider ==
    /\ upload.pc = "provider"
    /\ \E r \in Provider(upload.hosts, upload.frozen) :
         upload' =
            IF r.err
            THEN [ upload EXCEPT !.pc = "done", !.ret = "ErrMaxUpRetry",
                                 !.log = Append(@, UpEvent("provider", 0, "err")) ]
            ELSE [ upload EXCEPT !.pc = "action", !.host = r.host, !.i = 0,
                                 !.log = Append(@, UpEvent("provider", r.host, "ok")) ]
    /\ UNCHANGED <<bucket, progress, listVars, syncVars, fileVars, openVars, dirVars,
                   statVars, mountVars, regionVars>>

\* doUploadAction, one turn of the inner loop: action(host) and the tests of
\* its result.
UploadAttempt ==
    /\ upload.pc = "action"
    /\ \E e \in ActionOutcomes :
         LET logged == Append(upload.log, UpEvent("action", upload.host, e))
         IN upload' =
              IF e = "nil"
              THEN [ upload EXCEPT !.pc = "done", !.ret = "nil", !.log = logged ]
              ELSE IF ~shouldUploadRetryWithOtherHost(e)
              THEN [ upload EXCEPT !.pc = "done", !.ret = e, !.err = e, !.log = logged ]
              ELSE IF upload.i >= upload.retryMax
              THEN [ upload EXCEPT !.pc = "freeze", !.err = e, !.log = logged ]
              ELSE [ upload EXCEPT !.i = @ + 1, !.err = e, !.log = logged ]
    /\ UNCHANGED <<bucket, progress, listVars, syncVars, fileVars, openVars, dirVars,
                   statVars, mountVars, regionVars>>

\* doUploadAction, the end of the outer loop: hostProvider.Freeze(host, err,
\* freezeDuration), its result dropped.
UploadFreeze ==
    /\ upload.pc = "freeze"
    /\ upload' = [ upload EXCEPT !.pc = "provider",
                                 !.frozen = Freeze(@, upload.host),
                                 !.log = Append(@, UpEvent("freeze", upload.host, "ok")) ]
    /\ UNCHANGED <<bucket, progress, listVars, syncVars, fileVars, openVars, dirVars,
                   statVars, mountVars, regionVars>>

InitUpload ==
    /\ bucket = {}
    /\ upload = NoUpload
    /\ progress = <<>>
    /\ ListIdle /\ SyncIdle /\ FileIdle /\ OpenIdle /\ DirIdle /\ StatIdle
    /\ MountIdle /\ RegionIdle

NextUpload == UploadStart \/ UploadProvider \/ UploadAttempt \/ UploadFreeze

SpecUpload == InitUpload /\ [][NextUpload]_vars

\* The call goes on whenever it can: every call it makes returns.
SpecUploadFair == SpecUpload /\ WF_vars(NextUpload)

\* How many times action was called with the host h.
AttemptsOn(h) ==
    Cardinality({ k \in 1..Len(upload.log) :
                    upload.log[k].ev = "action" /\ upload.log[k].host = h })

\* C33: action is called no more than TryTimes times with any one host
\* before the host is frozen and another one is asked for.
C33_AtMostTryTimes ==
    upload.pc # "idle" => \A h \in UpHosts : AttemptsOn(h) <= upload.TryTimes

LastEvent == upload.log[Len(upload.log)]

----------------------------------------------------------------------------
(* kodo package: the progress reports of a form upload *)

MaxBody == 3
MaxSends == 2

\* The lengths the form body may have, and the formBodyLen computed for a
\* body: -1 when the size of the data is not given, and otherwise the
\* length the given size makes, which the data may exceed.
BodyLens == 1..MaxBody
FormBodyLens(len) == {-1, len} \cup (IF len > 1 THEN {len - 1} ELSE {})

NoReader == [ uploaded |-> 0, left |-> 0, eof |-> TRUE ]
NoProgress ==
    [ pc |-> "idle", fsize |-> 0, body |-> 0, lastUploadedBytes |-> 0, seen |-> <<>>,
      reports |-> <<>>, reader |-> NoReader, sends |-> 0, ret |-> "none" ]

Seen(total, uploaded, via) == [ total |-> total, uploaded |-> uploaded, via |-> via ]

\* uploadProgress.onProgress(totalBytes, uploadedBytes) with a handler set.
onProgress(pr, totalBytes, uploadedBytes) ==
    IF pr.lastUploadedBytes >= uploadedBytes
    THEN pr
    ELSE [ pr EXCEPT !.lastUploadedBytes = uploadedBytes,
                     !.seen = Append(@, Seen(totalBytes, uploadedBytes, "filter")) ]

\* readerWithProgress.Read when the reader under it gives n bytes.
readerRead(pr, n) ==
    LET rd == pr.reader
        told == IF rd.uploaded > 0
                THEN [ onProgress(pr, pr.fsize, rd.uploaded)
                         EXCEPT !.reports = Append(@, rd.uploaded) ]
                ELSE pr
        added == rd.uploaded + n
    IN [ told EXCEPT !.reader =
           [ uploaded |-> IF pr.fsize > 0 /\ added > pr.fsize THEN pr.fsize ELSE added,
             left |-> rd.left - n,
             eof |-> n = 0 ] ]

\* putSeekableData up to newUploadProgress(extra.OnProgress), the handler
\* being set.
ProgressStart ==
    /\ progress.pc = "idle"
    /\ \E len \in BodyLens :
         \E fsize \in FormBodyLens(len) :
            progress' = [ NoProgress EXCEPT !.pc = "sending", !.fsize = fsize,
                                            !.body = len ]
    /\ UNCHANGED <<bucket, upload, listVars, syncVars, fileVars, openVars, dirVars,
                   statVars, mountVars, regionVars>>

\* getBodyReader: the body is sent, or sent again after a failure, through a
\* new readerWithProgress.
ProgressNewReader ==
    /\ progress.pc = "sending"
    /\ progress.sends < MaxSends
    /\ progress' = [ progress EXCEPT !.sends = @ + 1,
                       !.reader = [ uploaded |-> 0, left |-> progress.body,
                                    eof |-> FALSE ] ]
    /\ UNCHANGED <<bucket, upload, listVars, syncVars, fileVars, openVars, dirVars,
                   statVars, mountVars, regionVars>>

\* One Read of the body by the http client: some bytes, or none at the end.
ProgressRead ==
    /\ progress.pc = "sending"
    /\ ~progress.reader.eof
    /\ \E n \in 0..progress.reader.left :
         /\ n = 0 <=> progress.reader.left = 0
         /\ progress' = readerRead(progress, n)
    /\ UNCHANGED <<bucket, upload, listVars, syncVars, fileVars, openVars, dirVars,
                   statVars, mountVars, regionVars>>

\* doUploadAction returns nil after the body was read:
\* extra.OnProgress(formBodyLen, formBodyLen), and nil is returned.
ProgressFinish ==
    /\ progress.pc = "sending"
    /\ progress.sends > 0
    /\ progress.reader.left = 0
    /\ progress' = [ progress EXCEPT !.pc = "done", !.ret = "nil",
                       !.seen = Append(@, Seen(progress.fsize, progress.fsize, "direct")) ]
    /\ UNCHANGED <<bucket, upload, listVars, syncVars, fileVars, openVars, dirVars,
                   statVars, mountVars, regionVars>>

\* doUploadAction returns an error: it is returned, the handler not called.
ProgressFail ==
    /\ progress.pc = "sending"
    /\ progress.sends > 0
    /\ progress' = [ progress EXCEPT !.pc = "done", !.ret = "err" ]
    /\ UNCHANGED <<bucket, upload, listVars, syncVars, fileVars, openVars, dirVars,
                   statVars, mountVars, regionVars>>

InitProgress ==
    /\ bucket = {}
    /\ upload = <<>>
    /\ progress = NoProgress
    /\ ListIdle /\ SyncIdle /\ FileIdle /\ OpenIdle /\ DirIdle /\ StatIdle
    /\ MountIdle /\ RegionIdle

NextProgress ==
    ProgressStart \/ ProgressNewReader \/ ProgressRead \/ ProgressFinish \/ ProgressFail

SpecProgress == InitProgress /\ [][NextProgress]_vars

\* The calls the handler got through uploadProgress, in order.
Forwarded == SelectSeq(progress.seen, LAMBDA c : c.via = "filter")

\* The counts of the calls in q are strictly increasing.
Increasing(q) == \A i, j \in 1..Len(q) : i < j => q[i].uploaded < q[j].uploaded

\* C35: the calls the user's progress handler gets have strictly increasing
\* counts of uploaded bytes, bodies sent again included: uploadProgress
\* forwards a call only with a count above every count forwarded before, and
\* readerWithProgress reports no count above the total size when the size is
\* positive.
C35_StrictlyIncreasing ==
    progress.pc # "idle" =>
        /\ Increasing(progress.seen)
        /\ Increasing(Forwarded)
        /\ progress.fsize > 0 =>
              \A k \in 1..Len(progress.reports) : progress.reports[k] <= progress.fsize

====
